---- MODULE Spec2Model ----
(***************************************************************************)
(* Verification model of the price-action backtesting core:                *)
(*   - the Layer 1+2 indicator / trend / entry pipeline of                 *)
(*     research/modules/mitch_l1l2_strategy.py                             *)
(*   - the bar-loop order and position simulators (backtest,               *)
(*     backtest_trailing, backtest_grid, backtest_grid_limit, backtest_v2) *)
(*   - the AlBrooksV2Strategy object and its run_backtest                  *)
(*                                                                         *)
(* Numbers.  Prices are integers (ticks).  Arrays keep the source's        *)
(* 0-based indices: an array of n elements is a function on 0..n-1.        *)
(* np.nan is the sentinel NaN, and every comparison goes through Lt/Gt/... *)
(* which are FALSE when an operand is NaN, as IEEE comparisons are.        *)
(* atr[i] is kept as AtrPeriod * atr (the rolling sum of true ranges),     *)
(* ema[i] as (EmaPeriod+1)^i * ema, and stop/target levels as              *)
(* 2 * AtrPeriod * level, so that every value of the source is an exact    *)
(* integer here.                                                           *)
(***************************************************************************)
EXTENDS Integers, Sequences, FiniteSets, TLC

VARIABLES
    \* ---- l1l2 pipeline (run_strategy up to detect_trend_and_entries)
    df,         \* the input bars, a function 0..n-1 -> bar
    params,     \* swing_strength, use_ema_confirmation, track_first_entries
    data,       \* result of precompute_indicators, or Unset
    signals,    \* result of detect_trend_and_entries, or Unset
    \* ---- bar-loop simulators
    variant,    \* which backtest function runs
    bt,         \* the loop's local variables, a record
    trades,     \* the list of trade records returned
    \* ---- AlBrooksV2Strategy
    ab          \* the strategy object and the driver of run_backtest

pipeVars == <<df, params, data, signals>>
simVars == <<variant, bt, trades>>
abVars == <<ab>>
vars == <<df, params, data, signals, variant, bt, trades, ab>>

Unset == [unset |-> TRUE]

----------------------------------------------------------------------------
(* Bounds and model-sized configuration *)

\* longest input series of the pipeline
MaxBars == 6
\* params['atr_period'] and params['ema_period'] as instantiated in the model
AtrPeriod == 2
EmaPeriod == 3

\* np.nan
NaN == -9999

IsNaN(x) == x = NaN
Lt(a, b) == ~IsNaN(a) /\ ~IsNaN(b) /\ a < b
Gt(a, b) == ~IsNaN(a) /\ ~IsNaN(b) /\ a > b
Le(a, b) == ~IsNaN(a) /\ ~IsNaN(b) /\ a <= b
Ge(a, b) == ~IsNaN(a) /\ ~IsNaN(b) /\ a >= b

Abs(x) == IF x < 0 THEN -x ELSE x
Max2(a, b) == IF a >= b THEN a ELSE b
Min2(a, b) == IF a <= b THEN a ELSE b

RECURSIVE Pow(_, _)
Pow(b, e) == IF e = 0 THEN 1 ELSE b * Pow(b, e - 1)

RECURSIVE SumTo(_, _, _)
\* f[a] + ... + f[b]
SumTo(f, a, b) == IF a > b THEN 0 ELSE f[b] + SumTo(f, a, b - 1)

\* DEFAULT_PARAMS, in halves of an ATR
StopBufferAtrX2 == 1
MaxStopAtrX2 == 4
TargetAtrFallbackX2 == 4
MeasuredMoveCapAtrX2 == 10

\* levels are kept as LevelScale * price
LevelScale == 2 * AtrPeriod

TREND_UNKNOWN == 0
TREND_UP == 1
TREND_DOWN == -1
TREND_RANGE == 2

\* The bars a series is drawn from: an inside bar and two wide bars one
\* tick apart, both closing at their highs.
BarShapes ==
    { [open |-> 2, high |-> 2, low |-> 2, close |-> 2],
      [open |-> 2, high |-> 3, low |-> 0, close |-> 3],
      [open |-> 2, high |-> 4, low |-> 1, close |-> 4] }

SwingStrengths == {1, 2}

ParamChoices ==
    [swing_strength : SwingStrengths,
     use_ema_confirmation : BOOLEAN,
     track_first_entries : BOOLEAN]

----------------------------------------------------------------------------
(* Indicator layer *)

Column(frame, name) == [i \in DOMAIN frame |-> frame[i][name]]

NoShiftSwingFlag(raw, strength, i) == raw[i]

\* sh[strength:] = is_swing_high[:-strength]
ShiftedSwingFlag(raw, strength, i) == i >= strength /\ raw[i - strength]

TiesAreSwings(a, b) == a >= b

\* highs[s:] > highs[:-s], element by element
StrictlyBeyond(a, b) == a > b

\* is_swing_high / is_swing_low before the shift; sign = 1 for highs and
\* -1 for lows (lows[s:] < lows[:-s] is -lows[s:] > -lows[:-s])
RawSwing(vals, n, strength, sign) ==
    [j \in 0..(n - 1) |->
        /\ \A s \in 1..strength :
              /\ (j >= s => StrictlyBeyond(sign * vals[j], sign * vals[j - s]))
              /\ (j < n - s => StrictlyBeyond(sign * vals[j], sign * vals[j + s]))
        /\ j >= strength
        /\ j < n - strength]

detect_swings(highs, lows, strength) ==
    LET n == Cardinality(DOMAIN highs)
        is_swing_high == RawSwing(highs, n, strength, 1)
        is_swing_low == RawSwing(lows, n, strength, -1)
    IN  [sh |-> [i \in 0..(n - 1) |-> ShiftedSwingFlag(is_swing_high, strength, i)],
         sl |-> [i \in 0..(n - 1) |-> ShiftedSwingFlag(is_swing_low, strength, i)]]

compute_swing_prices(highs, lows, swing_high, swing_low, strength) ==
    LET n == Cardinality(DOMAIN highs)
    IN  [sh_price |-> [i \in 0..(n - 1) |->
                          IF i >= strength /\ swing_high[i]
                          THEN highs[i - strength] ELSE NaN],
         sl_price |-> [i \in 0..(n - 1) |->
                          IF i >= strength /\ swing_low[i]
                          THEN lows[i - strength] ELSE NaN]]

\* tr[i]
TrueRange(highs, lows, closes, i) ==
    IF i = 0 THEN highs[0] - lows[0]
    ELSE Max2(highs[i] - lows[i],
              Max2(Abs(highs[i] - closes[i - 1]), Abs(lows[i] - closes[i - 1])))

\* period * atr[i]: the sum of the last `period` true ranges, NaN before
\* the window fills
compute_atr(highs, lows, closes, period) ==
    LET n == Cardinality(DOMAIN highs)
        tr == [i \in 0..(n - 1) |-> TrueRange(highs, lows, closes, i)]
    IN  [i \in 0..(n - 1) |->
            IF i >= period - 1 THEN SumTo(tr, i - period + 1, i) ELSE NaN]

RECURSIVE EmaNum(_, _, _)
\* (period+1)^i * ema[i], from
\*   ema[i] = alpha * closes[i] + (1 - alpha) * ema[i-1], alpha = 2/(period+1)
EmaNum(closes, period, i) ==
    IF i = 0 THEN closes[0]
    ELSE 2 * closes[i] * Pow(period + 1, i - 1)
         + (period - 1) * EmaNum(closes, period, i - 1)

compute_ema(closes, period) ==
    [i \in DOMAIN closes |-> EmaNum(closes, period, i)]

\* close[i] < ema[i] and close[i] > ema[i] on the scaled ema
CloseBelowEma(close, ema, i) == close[i] * Pow(EmaPeriod + 1, i) < ema[i]
CloseAboveEma(close, ema, i) == close[i] * Pow(EmaPeriod + 1, i) > ema[i]

precompute_indicators(frame, p) ==
    LET highs == Column(frame, "high")
        lows == Column(frame, "low")
        closes == Column(frame, "close")
        strength == p.swing_strength
        sw == detect_swings(highs, lows, strength)
        pr == compute_swing_prices(highs, lows, sw.sh, sw.sl, strength)
    IN  [n |-> Cardinality(DOMAIN frame),
         open |-> Column(frame, "open"),
         high |-> highs,
         low |-> lows,
         close |-> closes,
         swing_high |-> sw.sh,
         swing_low |-> sw.sl,
         swing_high_price |-> pr.sh_price,
         swing_low_price |-> pr.sl_price,
         atr |-> compute_atr(highs, lows, closes, AtrPeriod),
         ema |-> compute_ema(closes, EmaPeriod)]

----------------------------------------------------------------------------
(* Structure classifier and signal generator: detect_trend_and_entries *)

NoLevels == [stop |-> NaN, target |-> NaN]

\* _set_levels: the stop and target written for a signal bar (both left
\* NaN when the ATR is undefined or zero).  atr is AtrPeriod * ATR, the
\* results are LevelScale * price.
set_levels(direction, swing_price, trigger_price, ref_price, atr) ==
    IF IsNaN(atr) \/ atr = 0 THEN NoLevels
    ELSE
    LET sw == LevelScale * swing_price
        buf == StopBufferAtrX2 * atr
        max_stop == MaxStopAtrX2 * atr
        fallback == TargetAtrFallbackX2 * atr
        cap == MeasuredMoveCapAtrX2 * atr
        leg1 == LevelScale * Abs(trigger_price - ref_price)
        measured == ~IsNaN(trigger_price) /\ ~IsNaN(ref_price)
    IN  IF direction = 1
        THEN [stop |-> IF buf > max_stop THEN sw - max_stop ELSE sw - buf,
              target |-> IF measured /\ sw + leg1 > sw /\ leg1 <= cap
                         THEN sw + leg1 ELSE sw + fallback]
        ELSE [stop |-> IF buf > max_stop THEN sw + max_stop ELSE sw + buf,
              target |-> IF measured /\ sw - leg1 < sw /\ leg1 <= cap
                         THEN sw - leg1 ELSE sw - fallback]

\* the loop's variables before the first bar
DetectInit ==
    [prev_sh |-> <<NaN, NaN>>,
     prev_sl |-> <<NaN, NaN>>,
     long_pullback_count |-> 0,
     short_pullback_count |-> 0,
     long_trigger_high |-> NaN,
     long_ref_low |-> NaN,
     short_trigger_low |-> NaN,
     short_ref_high |-> NaN,
     current_trend |-> TREND_UNKNOWN,
     signal |-> 0,
     entry_type |-> 0,
     stop_level |-> NaN,
     target_level |-> NaN]

NoRollSwingHistory(prev, is_new, price) ==
    IF is_new THEN <<price, prev[2]>> ELSE prev

\* prev[1] = prev[0]; prev[0] = price  (<<most recent, prior>>)
UpdateSwingHistory(prev, is_new, price) ==
    IF is_new THEN <<price, prev[1]>> ELSE prev

NonStrictClassifyStructure(prev_sh, prev_sl) ==
    IF IsNaN(prev_sh[2]) \/ IsNaN(prev_sl[2]) THEN TREND_UNKNOWN
    ELSE IF Ge(prev_sh[1], prev_sh[2]) /\ Ge(prev_sl[1], prev_sl[2]) THEN TREND_UP
    ELSE IF Le(prev_sh[1], prev_sh[2]) /\ Le(prev_sl[1], prev_sl[2]) THEN TREND_DOWN
    ELSE TREND_RANGE

\* the "Classify trend" block
ClassifyStructure(prev_sh, prev_sl) ==
    IF IsNaN(prev_sh[2]) \/ IsNaN(prev_sl[2]) THEN TREND_UNKNOWN
    ELSE LET hh == Gt(prev_sh[1], prev_sh[2])
             hl == Gt(prev_sl[1], prev_sl[2])
             lh == Lt(prev_sh[1], prev_sh[2])
             ll == Lt(prev_sl[1], prev_sl[2])
         IN  IF hh /\ hl THEN TREND_UP
             ELSE IF lh /\ ll THEN TREND_DOWN
             ELSE TREND_RANGE

StickyEmaConfirmation(previous, trend, use_ema, close, ema, i) ==
    IF use_ema /\ trend # TREND_UNKNOWN /\ ~IsNaN(ema[i])
    THEN IF trend = TREND_UP /\ (CloseBelowEma(close, ema, i) \/ previous = TREND_RANGE)
         THEN TREND_RANGE
         ELSE IF trend = TREND_DOWN /\ (CloseAboveEma(close, ema, i) \/ previous = TREND_RANGE)
         THEN TREND_RANGE
         ELSE trend
    ELSE trend

EmaDemotesToUnknown(previous, trend, use_ema, close, ema, i) ==
    IF use_ema /\ trend # TREND_UNKNOWN /\ ~IsNaN(ema[i])
    THEN IF trend = TREND_UP /\ CloseBelowEma(close, ema, i) THEN TREND_UNKNOWN
         ELSE IF trend = TREND_DOWN /\ CloseAboveEma(close, ema, i) THEN TREND_UNKNOWN
         ELSE trend
    ELSE trend

\* the optional EMA confirmation; `previous` is the value current_trend
\* held at the end of the previous iteration, which the code overwrites
\* before it gets here
EmaConfirmation(previous, trend, use_ema, close, ema, i) ==
    IF use_ema /\ trend # TREND_UNKNOWN /\ ~IsNaN(ema[i])
    THEN IF trend = TREND_UP /\ CloseBelowEma(close, ema, i) THEN TREND_RANGE
         ELSE IF trend = TREND_DOWN /\ CloseAboveEma(close, ema, i) THEN TREND_RANGE
         ELSE trend
    ELSE trend

LongSideFirstEntryAlways(st, i, d, p, new_sh, new_sl) ==
    IF st.current_trend = TREND_UP
    THEN LET reset == new_sh /\ Gt(st.prev_sh[1], st.prev_sh[2])
             s1 == IF reset
                   THEN [st EXCEPT !.long_pullback_count = 0,
                                   !.long_trigger_high = st.prev_sh[1],
                                   !.long_ref_low = st.prev_sl[1]]
                   ELSE st
         IN  IF new_sl /\ s1.long_pullback_count >= 0
             THEN LET c == s1.long_pullback_count + 1
                      lv == set_levels(1, d.swing_low_price[i], s1.long_trigger_high,
                                       s1.long_ref_low, d.atr[i])
                  IN  IF c = 1
                      THEN [s1 EXCEPT !.long_pullback_count = c,
                                      !.signal = 1, !.entry_type = 1,
                                      !.stop_level = lv.stop,
                                      !.target_level = lv.target]
                      ELSE IF c = 2
                      THEN [s1 EXCEPT !.long_pullback_count = -1,
                                      !.signal = 1, !.entry_type = 2,
                                      !.stop_level = lv.stop,
                                      !.target_level = lv.target]
                      ELSE [s1 EXCEPT !.long_pullback_count = c]
             ELSE s1
    ELSE [st EXCEPT !.long_pullback_count = 0]

\* the counter starts over once the second entry is emitted
LongSideRearms(st, i, d, p, new_sh, new_sl) ==
    IF st.current_trend = TREND_UP
    THEN LET reset == new_sh /\ Gt(st.prev_sh[1], st.prev_sh[2])
             s1 == IF reset
                   THEN [st EXCEPT !.long_pullback_count = 0,
                                   !.long_trigger_high = st.prev_sh[1],
                                   !.long_ref_low = st.prev_sl[1]]
                   ELSE st
         IN  IF new_sl /\ s1.long_pullback_count >= 0
             THEN LET c == s1.long_pullback_count + 1
                      lv == set_levels(1, d.swing_low_price[i], s1.long_trigger_high,
                                       s1.long_ref_low, d.atr[i])
                  IN  IF c = 1 /\ p.track_first_entries
                      THEN [s1 EXCEPT !.long_pullback_count = c,
                                      !.signal = 1, !.entry_type = 1,
                                      !.stop_level = lv.stop,
                                      !.target_level = lv.target]
                      ELSE IF c = 2
                      THEN [s1 EXCEPT !.long_pullback_count = 0,
                                      !.signal = 1, !.entry_type = 2,
                                      !.stop_level = lv.stop,
                                      !.target_level = lv.target]
                      ELSE [s1 EXCEPT !.long_pullback_count = c]
             ELSE s1
    ELSE [st EXCEPT !.long_pullback_count = 0]

\* the long side of the pullback counting, given the bar's trend
LongSide(st, i, d, p, new_sh, new_sl) ==
    IF st.current_trend = TREND_UP
    THEN LET reset == new_sh /\ Gt(st.prev_sh[1], st.prev_sh[2])
             s1 == IF reset
                   THEN [st EXCEPT !.long_pullback_count = 0,
                                   !.long_trigger_high = st.prev_sh[1],
                                   !.long_ref_low = st.prev_sl[1]]
                   ELSE st
         IN  IF new_sl /\ s1.long_pullback_count >= 0
             THEN LET c == s1.long_pullback_count + 1
                      lv == set_levels(1, d.swing_low_price[i], s1.long_trigger_high,
                                       s1.long_ref_low, d.atr[i])
                  IN  IF c = 1 /\ p.track_first_entries
                      THEN [s1 EXCEPT !.long_pullback_count = c,
                                      !.signal = 1, !.entry_type = 1,
                                      !.stop_level = lv.stop,
                                      !.target_level = lv.target]
                      ELSE IF c = 2
                      THEN [s1 EXCEPT !.long_pullback_count = -1,
                                      !.signal = 1, !.entry_type = 2,
                                      !.stop_level = lv.stop,
                                      !.target_level = lv.target]
                      ELSE [s1 EXCEPT !.long_pullback_count = c]
             ELSE s1
    ELSE [st EXCEPT !.long_pullback_count = 0]

\* shorts counted and emitted in a range as well
ShortSideInRange(st, i, d, p, new_sh, new_sl) ==
    IF st.current_trend \in {TREND_DOWN, TREND_RANGE}
    THEN LET reset == new_sl /\ Lt(st.prev_sl[1], st.prev_sl[2])
             s1 == IF reset
                   THEN [st EXCEPT !.short_pullback_count = 0,
                                   !.short_trigger_low = st.prev_sl[1],
                                   !.short_ref_high = st.prev_sh[1]]
                   ELSE st
         IN  IF new_sh /\ s1.short_pullback_count >= 0
             THEN LET c == s1.short_pullback_count + 1
                      lv == set_levels(-1, d.swing_high_price[i], s1.short_trigger_low,
                                       s1.short_ref_high, d.atr[i])
                  IN  IF c = 1 /\ p.track_first_entries
                      THEN [s1 EXCEPT !.short_pullback_count = c,
                                      !.signal = -1, !.entry_type = 1,
                                      !.stop_level = lv.stop,
                                      !.target_level = lv.target]
                      ELSE IF c = 2
                      THEN [s1 EXCEPT !.short_pullback_count = -1,
                                      !.signal = -1, !.entry_type = 2,
                                      !.stop_level = lv.stop,
                                      !.target_level = lv.target]
                      ELSE [s1 EXCEPT !.short_pullback_count = c]
             ELSE s1
    ELSE [st EXCEPT !.short_pullback_count = 0]

\* the short side, the mirror image
ShortSide(st, i, d, p, new_sh, new_sl) ==
    IF st.current_trend = TREND_DOWN
    THEN LET reset == new_sl /\ Lt(st.prev_sl[1], st.prev_sl[2])
             s1 == IF reset
                   THEN [st EXCEPT !.short_pullback_count = 0,
                                   !.short_trigger_low = st.prev_sl[1],
                                   !.short_ref_high = st.prev_sh[1]]
                   ELSE st
         IN  IF new_sh /\ s1.short_pullback_count >= 0
             THEN LET c == s1.short_pullback_count + 1
                      lv == set_levels(-1, d.swing_high_price[i], s1.short_trigger_low,
                                       s1.short_ref_high, d.atr[i])
                  IN  IF c = 1 /\ p.track_first_entries
                      THEN [s1 EXCEPT !.short_pullback_count = c,
                                      !.signal = -1, !.entry_type = 1,
                                      !.stop_level = lv.stop,
                                      !.target_level = lv.target]
                      ELSE IF c = 2
                      THEN [s1 EXCEPT !.short_pullback_count = -1,
                                      !.signal = -1, !.entry_type = 2,
                                      !.stop_level = lv.stop,
                                      !.target_level = lv.target]
                      ELSE [s1 EXCEPT !.short_pullback_count = c]
             ELSE s1
    ELSE [st EXCEPT !.short_pullback_count = 0]

\* one iteration of `for i in range(n)`; signal, entry_type, stop_level
\* and target_level of the result are the values of the output arrays at i
DetectStep(st, i, d, p) ==
    LET new_sh == d.swing_high[i] /\ ~IsNaN(d.swing_high_price[i])
        new_sl == d.swing_low[i] /\ ~IsNaN(d.swing_low_price[i])
        prev_sh == UpdateSwingHistory(st.prev_sh, new_sh, d.swing_high_price[i])
        prev_sl == UpdateSwingHistory(st.prev_sl, new_sl, d.swing_low_price[i])
        structure == ClassifyStructure(prev_sh, prev_sl)
        trend == EmaConfirmation(st.current_trend, structure,
                                 p.use_ema_confirmation, d.close, d.ema, i)
        s0 == [st EXCEPT !.prev_sh = prev_sh, !.prev_sl = prev_sl,
                         !.current_trend = trend,
                         !.signal = 0, !.entry_type = 0,
                         !.stop_level = NaN, !.target_level = NaN]
    IN  ShortSide(LongSide(s0, i, d, p, new_sh, new_sl), i, d, p, new_sh, new_sl)

RECURSIVE DetectLoop(_, _, _, _, _)
\* the states after iterations i, i+1, ..., n-1, appended to `done`
DetectLoop(i, st, done, d, p) ==
    IF i >= d.n THEN done
    ELSE LET s1 == DetectStep(st, i, d, p)
         IN  DetectLoop(i + 1, s1, Append(done, s1), d, p)

detect_trend_and_entries(d, p) ==
    LET run == DetectLoop(0, DetectInit, <<>>, d, p)
    IN  [trend |-> [i \in 0..(d.n - 1) |-> run[i + 1].current_trend],
         signal |-> [i \in 0..(d.n - 1) |-> run[i + 1].signal],
         entry_type |-> [i \in 0..(d.n - 1) |-> run[i + 1].entry_type],
         stop_level |-> [i \in 0..(d.n - 1) |-> run[i + 1].stop_level],
         target_level |-> [i \in 0..(d.n - 1) |-> run[i + 1].target_level]]

----------------------------------------------------------------------------
(* The l1l2 pipeline as run by run_strategy: precompute_indicators, then  *)
(* detect_trend_and_entries, on a series drawn at the start.              *)

Series == UNION { [0..(k - 1) -> BarShapes] : k \in 1..MaxBars }

SimIdle == variant = "none" /\ bt = Unset /\ trades = <<>>
AbIdle == ab = Unset

PipeInit ==
    /\ df \in Series
    /\ params \in ParamChoices
    /\ data = Unset
    /\ signals = Unset
    /\ SimIdle
    /\ AbIdle

PrecomputeIndicators ==
    /\ data = Unset
    /\ data' = precompute_indicators(df, params)
    /\ UNCHANGED <<df, params, signals, simVars, abVars>>

DetectTrendAndEntries ==
    /\ data # Unset
    /\ signals = Unset
    /\ signals' = detect_trend_and_entries(data, params)
    /\ UNCHANGED <<df, params, data, simVars, abVars>>

PipeNext == PrecomputeIndicators \/ DetectTrendAndEntries

SpecPipeline == PipeInit /\ [][PipeNext]_vars

\* the series cut after its first m bars
Truncated(frame, m) == [i \in 0..(m - 1) |-> frame[i]]

----------------------------------------------------------------------------
(* detect_trend_and_entries bar by bar.  The function reads its input     *)
(* arrays at the loop index only, so the loop is followed one iteration   *)
(* at a time with the entries of the arrays at that index drawn when the  *)
(* loop gets there: `data` holds them, `signals` the loop's variables and *)
(* what the iteration wrote to the output arrays.                         *)

\* last index the loop may reach
DetMaxBar == 8

\* prices of confirmed swing highs and of confirmed swing lows
SwingHighPrices == {11, 12, 13, 14}
SwingLowPrices == {1, 2, 3, 4}

\* AtrPeriod * atr[i] where the ATR is defined
DetAtr == 2

\* distance to the latest confirmation, capped where it stops mattering
SinceCap == 3

\* What the arrays can hold at index i after `env`: detect_swings confirms
\* a swing at i >= 2 * strength only, and two swings of one kind more than
\* strength bars apart; close[i] is below or above ema[i] (read only with
\* use_ema_confirmation); atr[i] is defined.
DetectorInputs(env, i, p) ==
    LET strength == p.swing_strength
        sh_ok == i >= 2 * strength /\ env.since_sh > strength
        sl_ok == i >= 2 * strength /\ env.since_sl > strength
        highs == {NaN} \cup (IF sh_ok THEN SwingHighPrices ELSE {})
        lows == {NaN} \cup (IF sl_ok THEN SwingLowPrices ELSE {})
        sides == IF p.use_ema_confirmation THEN {-1, 1} ELSE {1}
    IN  [sh_price : highs, sl_price : lows, close_side : sides, atr : {DetAtr}]

\* the entries at index i of the arrays of `data`, as the loop reads them
ArraysAt(i, inp) ==
    [swing_high |-> [j \in {i} |-> ~IsNaN(inp.sh_price)],
     swing_low |-> [j \in {i} |-> ~IsNaN(inp.sl_price)],
     swing_high_price |-> [j \in {i} |-> inp.sh_price],
     swing_low_price |-> [j \in {i} |-> inp.sl_price],
     close |-> [j \in {i} |-> 1],
     ema |-> [j \in {i} |-> (1 - inp.close_side) * Pow(EmaPeriod + 1, i)],
     atr |-> [j \in {i} |-> inp.atr]]

NoInput == [sh_price |-> NaN, sl_price |-> NaN, close_side |-> 1, atr |-> DetAtr]

DetectorInit ==
    /\ df = <<>>
    /\ params \in ParamChoices
    /\ data = [since_sh |-> SinceCap, since_sl |-> SinceCap, input |-> NoInput,
               long_wait |-> "none", short_wait |-> "none"]
    /\ signals = [i |-> 0, st |-> DetectInit]
    /\ SimIdle
    /\ AbIdle

\* What the run has seen since the latest second entry of one side:
\* "waiting" from the iteration that emitted it, "flipped" once a later
\* bar's trend was not the side's trend, "none" once a later iteration
\* confirmed a new extreme of the side (a higher swing high for longs, a
\* lower swing low for shorts) and before any second entry.  The loop
\* does not keep this; it records the history of the run.
WaitAfter(wait, second_entry, new_extreme, with_trend) ==
    IF second_entry THEN "waiting"
    ELSE IF wait = "none" \/ new_extreme THEN "none"
    ELSE IF ~with_trend THEN "flipped"
    ELSE wait

\* the iteration that left `out` confirmed a higher swing high / a lower
\* swing low
HigherHigh(inp, out) == ~IsNaN(inp.sh_price) /\ Gt(out.prev_sh[1], out.prev_sh[2])
LowerLow(inp, out) == ~IsNaN(inp.sl_price) /\ Lt(out.prev_sl[1], out.prev_sl[2])

\* one iteration of `for i in range(n)` on the entries `inp` of index i
DetectIteration(inp) ==
    /\ signals' = [i |-> signals.i + 1,
                   st |-> DetectStep(signals.st, signals.i,
                                     ArraysAt(signals.i, inp), params)]
    /\ data' = [since_sh |-> IF ~IsNaN(inp.sh_price) THEN 1
                             ELSE Min2(SinceCap, data.since_sh + 1),
                since_sl |-> IF ~IsNaN(inp.sl_price) THEN 1
                             ELSE Min2(SinceCap, data.since_sl + 1),
                input |-> inp,
                long_wait |->
                    LET out == signals'.st
                    IN  WaitAfter(data.long_wait,
                                  out.signal = 1 /\ out.entry_type = 2,
                                  HigherHigh(inp, out),
                                  out.current_trend = TREND_UP),
                short_wait |->
                    LET out == signals'.st
                    IN  WaitAfter(data.short_wait,
                                  out.signal = -1 /\ out.entry_type = 2,
                                  LowerLow(inp, out),
                                  out.current_trend = TREND_DOWN)]
    /\ UNCHANGED <<df, params, simVars, abVars>>

DetectBar ==
    /\ signals.i <= DetMaxBar
    /\ \E inp \in DetectorInputs(data, signals.i, params) : DetectIteration(inp)

SpecDetector == DetectorInit /\ [][DetectBar]_vars

(* The clean uptrend: confirmed swings alternate swing high, swing low,   *)
(* swing high, ..., one to two bars apart, each above the previous swing  *)
(* of its kind, at swing strength 2.                                      *)

\* last index the loop may reach on the clean uptrend
UptrendMaxBar == 11

UptrendStrength == 2

CleanUptrendInputs(env, st, i, p) ==
    LET first == IsNaN(st.prev_sh[1]) /\ IsNaN(st.prev_sl[1])
        high_next == first \/ env.since_sl < env.since_sh
        low_next == env.since_sh < env.since_sl
    IN  { inp \in DetectorInputs(env, i, p) :
            /\ IsNaN(inp.sh_price) \/ IsNaN(inp.sl_price)
            /\ ~IsNaN(inp.sh_price) =>
                  high_next /\ (IsNaN(st.prev_sh[1]) \/ inp.sh_price > st.prev_sh[1])
            /\ ~IsNaN(inp.sl_price) =>
                  low_next /\ (IsNaN(st.prev_sl[1]) \/ inp.sl_price > st.prev_sl[1]) }

CleanUptrendInit ==
    /\ DetectorInit
    /\ params.swing_strength = UptrendStrength

CleanUptrendBar ==
    /\ signals.i <= UptrendMaxBar
    /\ \E inp \in CleanUptrendInputs(data, signals.st, signals.i, params) :
          DetectIteration(inp)

SpecCleanUptrend == CleanUptrendInit /\ [][CleanUptrendBar]_vars

----------------------------------------------------------------------------
(* Claims about the pipeline *)

\* C1: no look-ahead.  Whatever the pipeline writes at an index j is what
\* it writes at j when run on the series truncated after any bar i >= j:
\* swing flags, swing prices, trend, signal, entry_type, stop_level and
\* target_level.
C1_NoLookahead ==
    signals # Unset =>
        \A m \in 1..data.n :
            LET dT == precompute_indicators(Truncated(df, m), params)
                sT == detect_trend_and_entries(dT, params)
            IN  \A j \in 0..(m - 1) :
                    /\ data.swing_high[j] = dT.swing_high[j]
                    /\ data.swing_low[j] = dT.swing_low[j]
                    /\ data.swing_high_price[j] = dT.swing_high_price[j]
                    /\ data.swing_low_price[j] = dT.swing_low_price[j]
                    /\ signals.trend[j] = sT.trend[j]
                    /\ signals.signal[j] = sT.signal[j]
                    /\ signals.entry_type[j] = sT.entry_type[j]
                    /\ signals.stop_level[j] = sT.stop_level[j]
                    /\ signals.target_level[j] = sT.target_level[j]

\* a run with a swing and a priced signal before the last bar, so that
\* there are later bars that could have leaked into them
C1_Witness ==
    /\ signals # Unset
    /\ \E j \in 0..(data.n - 2) :
          /\ signals.signal[j] # 0
          /\ ~IsNaN(signals.stop_level[j])
          /\ ~IsNaN(signals.target_level[j])
          /\ data.swing_high[j]

\* the claim's condition for a confirmed swing at index i; sign = 1 for
\* highs and -1 for lows
ConfirmedExtremum(vals, strength, i, sign) ==
    /\ i >= 2 * strength
    /\ \A k \in 1..strength :
          /\ sign * vals[i - strength] > sign * vals[i - strength - k]
          /\ sign * vals[i - strength] > sign * vals[i - strength + k]

\* C6: swing_high[i] is set exactly when i >= 2*strength and
\* high[i-strength] is strictly above the strength bars on each side of
\* it, and swing_high_price[i] then carries high[i-strength] (NaN
\* otherwise); the same for lows with "below".
C6_SwingAtConfirmationBar ==
    data # Unset =>
        \A i \in 0..(data.n - 1) :
            LET s == params.swing_strength
                isHigh == ConfirmedExtremum(Column(df, "high"), s, i, 1)
                isLow == ConfirmedExtremum(Column(df, "low"), s, i, -1)
            IN  /\ data.swing_high[i] = isHigh
                /\ data.swing_low[i] = isLow
                /\ data.swing_high_price[i] = IF isHigh THEN df[i - s].high ELSE NaN
                /\ data.swing_low_price[i] = IF isLow THEN df[i - s].low ELSE NaN

\* strength 2, a confirmed swing high and a confirmed swing low, and a
\* bar that ties with a neighbour
C6_Witness ==
    /\ data # Unset
    /\ params.swing_strength = 2
    /\ \E i \in 0..(data.n - 1) : data.swing_high[i]
    /\ \E i \in 0..(data.n - 1) : data.swing_low[i]
    /\ \E i \in 1..(data.n - 1) : df[i].high = df[i - 1].high

\* the confirmation bars of swing highs (lows) at or before bar i
ConfirmedAt(flags, i) == { k \in 0..i : flags[k] }
Newest(S) == CHOOSE k \in S : \A j \in S : j <= k

\* the trend the claim prescribes at bar i from the two most recent
\* confirmed swings of each kind
StructureTrend(i) ==
    LET H == ConfirmedAt(data.swing_high, i)
        L == ConfirmedAt(data.swing_low, i)
    IN  IF Cardinality(H) < 2 \/ Cardinality(L) < 2 THEN TREND_UNKNOWN
        ELSE LET h0 == data.swing_high_price[Newest(H)]
                 h1 == data.swing_high_price[Newest(H \ {Newest(H)})]
                 l0 == data.swing_low_price[Newest(L)]
                 l1 == data.swing_low_price[Newest(L \ {Newest(L)})]
             IN  IF h0 > h1 /\ l0 > l1 THEN TREND_UP
                 ELSE IF h0 < h1 /\ l0 < l1 THEN TREND_DOWN
                 ELSE TREND_RANGE

\* C7: with EMA confirmation off, the trend at every bar is UNKNOWN until
\* two swing highs and two swing lows are confirmed, then UP iff newest
\* high > prior high and newest low > prior low, DOWN iff both are lower,
\* RANGE otherwise.
C7_TrendClassification ==
    (signals # Unset /\ ~params.use_ema_confirmation) =>
        \A i \in 0..(data.n - 1) : signals.trend[i] = StructureTrend(i)

C7_Witness ==
    /\ signals # Unset
    /\ ~params.use_ema_confirmation
    /\ signals.trend[0] = TREND_UNKNOWN
    /\ \E i \in 0..(data.n - 1) : signals.trend[i] = TREND_UP

\* close[i] against ema[i], with ema[i] computed from its definition
EmaValueNum(i) == EmaNum(Column(df, "close"), EmaPeriod, i)
EmaDen(i) == Pow(EmaPeriod + 1, i)

\* C8: with EMA confirmation on, the trend at bar i is the structure
\* trend, except UP -> RANGE iff close[i] < ema[i] and DOWN -> RANGE iff
\* close[i] > ema[i]; nothing of bar i-1's demotion enters.
C8_EmaNoHysteresis ==
    (signals # Unset /\ params.use_ema_confirmation) =>
        \A i \in 0..(data.n - 1) :
            LET st == StructureTrend(i)
                below == df[i].close * EmaDen(i) < EmaValueNum(i)
                above == df[i].close * EmaDen(i) > EmaValueNum(i)
            IN  signals.trend[i] =
                    IF st = TREND_UP /\ below THEN TREND_RANGE
                    ELSE IF st = TREND_DOWN /\ above THEN TREND_RANGE
                    ELSE st

\* a demotion at bar i followed by the undemoted trend at bar i+1
C8_Witness ==
    /\ signals # Unset
    /\ params.use_ema_confirmation
    /\ \E i \in 0..(data.n - 2) :
          /\ StructureTrend(i) = TREND_UP
          /\ StructureTrend(i + 1) = TREND_UP
          /\ signals.trend[i] = TREND_RANGE
          /\ signals.trend[i + 1] = TREND_UP

----------------------------------------------------------------------------
(* Order and position simulators: the bar loops of backtest,               *)
(* backtest_trailing, backtest_grid, backtest_grid_limit and backtest_v2.  *)
(* The five loops share one shape and differ in the order type, in the    *)
(* trailing block, in the fixed target and in the entry filter; `variant` *)
(* says which function runs and with which of its options.  Each bar's    *)
(* data (OHLC, date, session time, swing and ATR arrays at i, the signal  *)
(* arrays at the index the loop reads) is drawn when the loop reaches it. *)

\* last bar index a run may reach (the loop is `for i in range(1, n)`)
SimMaxBar == 5
\* calendar days a series may span (as numbers; 0 is current_date None)
Dates == {1, 2}

\* params of the simulators, sized for the model
SimParams ==
    [slippage |-> 1,
     commission |-> 1,
     point_value |-> 1,
     max_hold |-> 3,
     max_daily_loss |-> -5,
     max_consec_losses |-> 2,
     order_timeout |-> 2,
     trail_buffer_atr |-> 1]

Functions ==
    {"backtest", "backtest_trailing", "backtest_grid",
     "backtest_grid_limit", "backtest_v2"}

Variants ==
    [fn : Functions, use_breakeven : BOOLEAN, keep_target : BOOLEAN]

\* the options a function reads: backtest has neither, only
\* backtest_trailing has keep_target
VariantsOf(fns) ==
    { v \in Variants :
        /\ v.fn \in fns
        /\ (v.fn = "backtest" => v.use_breakeven = FALSE /\ v.keep_target = TRUE)
        /\ (v.fn \notin {"backtest", "backtest_trailing"} => v.keep_target = FALSE) }

HasTrail(v) == v.fn # "backtest"
OrderType(v) ==
    CASE v.fn = "backtest_grid_limit" -> "limit"
      [] v.fn = "backtest_v2" -> "stop"
      [] OTHER -> "market"
HasGrid(v) == v.fn \in {"backtest_grid", "backtest_grid_limit"}
\* a fixed target is checked in the exit block
KeepsTarget(v) == v.fn = "backtest" \/ (v.fn = "backtest_trailing" /\ v.keep_target)

\* bar shapes around a price of 12: a flat bar, a wide bar, a bar that
\* opens low and closes at 12, and a sell-off
SimBars ==
    { [open |-> 12, high |-> 12, low |-> 12, close |-> 12],
      [open |-> 12, high |-> 14, low |-> 10, close |-> 12],
      [open |-> 10, high |-> 12, low |-> 10, close |-> 12],
      [open |-> 12, high |-> 12, low |-> 8, close |-> 10] }

NoSignal == [sig |-> 0, atr |-> 1, stop |-> NaN, target |-> NaN, entry |-> NaN,
             cell_ok |-> TRUE]

\* what the signal arrays hold at the index the loop reads: nothing, a
\* long or a short with its levels, or a signal whose levels are undefined.
\* `entry` is the limit price (the swing price at the signal bar) or the
\* stop-entry price; cell_ok is the outcome of the grid filter.  The stop
\* of a market order is set on the signal bar, before the open it fills
\* at is known: 12 is above the fill of a bar that opens at 10.  backtest
\* reads atr[prev] only here, so its value is part of the choice; the
\* trailing loops read the ATR array in the trailing block as well and
\* keep the previous bar's value in atr_prev.
SignalChoices(v) ==
    LET valid ==
            CASE OrderType(v) = "market" ->
                    [sig : {1}, atr : {1}, stop : {8, 10, 12}, target : {14},
                     entry : {NaN}, cell_ok : {TRUE}]
                    \cup
                    [sig : {-1}, atr : {1}, stop : {14}, target : {10},
                     entry : {NaN}, cell_ok : {TRUE}]
              [] OrderType(v) = "limit" ->
                    [sig : {1}, atr : {1}, stop : {8}, target : {14},
                     entry : {10}, cell_ok : {TRUE}]
                    \cup
                    [sig : {-1}, atr : {1}, stop : {14}, target : {10},
                     entry : {12}, cell_ok : {TRUE}]
              [] OTHER ->
                    [sig : {1}, atr : {1}, stop : {10}, target : {NaN},
                     entry : {12, 14}, cell_ok : {TRUE}]
                    \cup
                    [sig : {-1}, atr : {1}, stop : {14}, target : {NaN},
                     entry : {12}, cell_ok : {TRUE}]
        other_cell ==
            IF HasGrid(v)
            THEN { [sg EXCEPT !.cell_ok = FALSE] : sg \in { x \in valid : x.sig = 1 } }
            ELSE {}
        no_atr ==
            IF HasTrail(v) THEN {}
            ELSE { [sig |-> 1, atr |-> NaN, stop |-> 10, target |-> 14,
                    entry |-> NaN, cell_ok |-> TRUE],
                   [sig |-> -1, atr |-> 0, stop |-> 14, target |-> 10,
                    entry |-> NaN, cell_ok |-> TRUE] }
        no_level ==
            { [sig |-> 1, atr |-> 1, stop |-> NaN, target |-> 14,
               entry |-> IF OrderType(v) = "market" THEN NaN ELSE 12,
               cell_ok |-> TRUE],
              IF OrderType(v) = "market"
              THEN [sig |-> -1, atr |-> 1, stop |-> 14, target |-> NaN,
                    entry |-> NaN, cell_ok |-> TRUE]
              ELSE [sig |-> -1, atr |-> 1, stop |-> 14, target |-> 10,
                    entry |-> NaN, cell_ok |-> TRUE] }
    IN  {NoSignal} \cup valid \cup other_cell \cup no_atr \cup no_level

\* swing_low_price[i] / swing_high_price[i] (NaN: no swing confirmed at i)
\* and atr[i], read by the trailing block
TrailChoices(v) ==
    IF HasTrail(v)
    THEN [sl_price : {NaN, 10, 12}, sh_price : {NaN}, atr : {NaN, 1}]
         \cup
         [sl_price : {NaN}, sh_price : {10, 12, 14}, atr : {NaN, 1}]
    ELSE {[sl_price |-> NaN, sh_price |-> NaN, atr |-> NaN]}

\* a signal entry for iterations that never read the signal arrays
UnreadSignals(v) ==
    {NoSignal, CHOOSE sg \in SignalChoices(v) :
                 sg.sig = 1 /\ sg.atr = 1 /\ ~IsNaN(sg.stop) /\ sg.cell_ok}

\* the iteration can get as far as the signal checks: it starts flat and,
\* with market orders, without an order to fill
ReadsSignal(s, v) ==
    ~s.in_position /\ (OrderType(v) = "market" => ~s.has_pending)

\* The data of bar s.i + 1.  Array entries the iteration cannot read are
\* not varied: the prices when there is neither a position nor an order,
\* the swing-low (swing-high) array unless a long (short) position is
\* open, the signal arrays when the
\* loop leaves the iteration before the signal checks or the bar is
\* outside the session.
BarInputs(v, s) ==
    LET dates == {s.current_date, s.current_date + 1} \cap Dates
        bars == IF s.in_position \/ s.has_pending
                THEN SimBars
                ELSE { b \in SimBars : b.high = b.low }
        sigs == IF ReadsSignal(s, v) THEN SignalChoices(v) ELSE UnreadSignals(v)
        trs == { t \in TrailChoices(v) :
                   /\ (~s.in_position \/ s.pos_type # 1) => IsNaN(t.sl_price)
                   /\ (~s.in_position \/ s.pos_type = 1) => IsNaN(t.sh_price) }
    IN  [bar : bars, date : dates, in_rth : {TRUE}, signal : sigs, trail : trs]
        \cup
        [bar : bars, date : dates, in_rth : {FALSE},
         signal : IF ReadsSignal(s, v) THEN UnreadSignals(v) \ {NoSignal} ELSE {},
         trail : trs]

\* the loop's variables before the first iteration (current_date None is 0);
\* bar and in_rth are the row of index i: its prices and whether time_f[i]
\* lies in [rth_start, rth_end)
BacktestInit ==
    [i |-> 0,
     in_position |-> FALSE, pos_type |-> 0, entry_bar |-> 0,
     entry_price |-> 0, stop_price |-> 0, target_price |-> 0,
     initial_stop |-> 0, be_moved |-> FALSE, trail_count |-> 0,
     trade_signal_bar |-> 0,
     has_pending |-> FALSE, pending_dir |-> 0, pending_price |-> 0,
     pending_stop |-> 0, pending_target |-> 0,
     pending_signal_bar |-> 0, pending_placed_bar |-> 0,
     daily_pnl |-> 0, consec_losses |-> 0, current_date |-> 0,
     atr_prev |-> NaN, bar |-> CHOOSE b \in SimBars : b.high = b.low,
     in_rth |-> TRUE, total_fills |-> 0]

\* d != current_date: reset of the risk counters
NoDayReset(s, d) == [s EXCEPT !.current_date = d]

DayReset(s, d) ==
    IF d # s.current_date
    THEN [s EXCEPT !.current_date = d, !.daily_pnl = 0, !.consec_losses = 0]
    ELSE s

UnratchetedTrail(s, v, tr) ==
    LET a_now == IF ~IsNaN(tr.atr) THEN tr.atr ELSE s.atr_prev
        buf == IF ~IsNaN(a_now) THEN SimParams.trail_buffer_atr * a_now ELSE 0
    IN  IF s.pos_type = 1 /\ ~IsNaN(tr.sl_price)
        THEN [s EXCEPT !.stop_price = tr.sl_price - buf, !.trail_count = @ + 1]
        ELSE IF s.pos_type # 1 /\ ~IsNaN(tr.sh_price)
        THEN [s EXCEPT !.stop_price = tr.sh_price + buf, !.trail_count = @ + 1]
        ELSE s

\* the TRAILING STOP UPDATE block, for a position that is open
TrailingStopUpdate(s, v, tr) ==
    LET a_now == IF ~IsNaN(tr.atr) THEN tr.atr ELSE s.atr_prev
        buf == IF ~IsNaN(a_now) THEN SimParams.trail_buffer_atr * a_now ELSE 0
    IN  IF s.pos_type = 1
        THEN IF ~IsNaN(tr.sl_price)
             THEN LET sw_low == tr.sl_price
                      new_stop == sw_low - buf
                      be == v.use_breakeven /\ ~s.be_moved /\ sw_low > s.entry_price
                      s1 == IF be
                            THEN [s EXCEPT !.stop_price = Max2(s.stop_price, s.entry_price),
                                           !.be_moved = TRUE,
                                           !.trail_count = @ + 1]
                            ELSE s
                  IN  IF new_stop > s1.stop_price
                      THEN [s1 EXCEPT !.stop_price = new_stop, !.trail_count = @ + 1]
                      ELSE s1
             ELSE s
        ELSE IF ~IsNaN(tr.sh_price)
             THEN LET sw_high == tr.sh_price
                      new_stop == sw_high + buf
                      be == v.use_breakeven /\ ~s.be_moved /\ sw_high < s.entry_price
                      s1 == IF be
                            THEN [s EXCEPT !.stop_price = Min2(s.stop_price, s.entry_price),
                                           !.be_moved = TRUE,
                                           !.trail_count = @ + 1]
                            ELSE s
                  IN  IF new_stop < s1.stop_price
                      THEN [s1 EXCEPT !.stop_price = new_stop, !.trail_count = @ + 1]
                      ELSE s1
             ELSE s

NoExit == [reason |-> "NONE", price |-> 0]

StopLabel(s, v) == IF HasTrail(v) /\ s.trail_count > 0 THEN "TRAIL_STOP" ELSE "STOP"

TargetFirstExit(s, v, bar, bars_held) ==
    LET stop_hit == IF s.pos_type = 1 THEN bar.low <= s.stop_price
                                      ELSE bar.high >= s.stop_price
        target_hit == KeepsTarget(v) /\
                      (IF s.pos_type = 1 THEN bar.high >= s.target_price
                                         ELSE bar.low <= s.target_price)
    IN  IF target_hit THEN [reason |-> "TARGET", price |-> s.target_price]
        ELSE IF stop_hit THEN [reason |-> StopLabel(s, v), price |-> s.stop_price]
        ELSE IF bars_held >= SimParams.max_hold
        THEN [reason |-> "TIME", price |-> bar.close]
        ELSE NoExit

ExitWithoutTimeLimit(s, v, bar, bars_held) ==
    LET stop_hit == IF s.pos_type = 1 THEN bar.low <= s.stop_price
                                      ELSE bar.high >= s.stop_price
        target_hit == KeepsTarget(v) /\
                      (IF s.pos_type = 1 THEN bar.high >= s.target_price
                                         ELSE bar.low <= s.target_price)
    IN  IF stop_hit THEN [reason |-> StopLabel(s, v), price |-> s.stop_price]
        ELSE IF target_hit THEN [reason |-> "TARGET", price |-> s.target_price]
        ELSE NoExit

\* the EXIT LOGIC block: stop, then target, then time
ExitLogic(s, v, bar, bars_held) ==
    LET stop_hit == IF s.pos_type = 1 THEN bar.low <= s.stop_price
                                      ELSE bar.high >= s.stop_price
        target_hit == KeepsTarget(v) /\
                      (IF s.pos_type = 1 THEN bar.high >= s.target_price
                                         ELSE bar.low <= s.target_price)
    IN  IF stop_hit THEN [reason |-> StopLabel(s, v), price |-> s.stop_price]
        ELSE IF target_hit THEN [reason |-> "TARGET", price |-> s.target_price]
        ELSE IF bars_held >= SimParams.max_hold
        THEN [reason |-> "TIME", price |-> bar.close]
        ELSE NoExit

SameBarTargetFirst(s, v, bar) ==
    LET stop_hit == IF s.pos_type = 1 THEN bar.low <= s.stop_price
                                      ELSE bar.high >= s.stop_price
        target_hit == KeepsTarget(v) /\
                      (IF s.pos_type = 1 THEN bar.high >= s.target_price
                                         ELSE bar.low <= s.target_price)
    IN  IF target_hit THEN [reason |-> "TARGET", price |-> s.target_price]
        ELSE IF stop_hit THEN [reason |-> "STOP", price |-> s.stop_price]
        ELSE NoExit

\* the same-bar check after a fill: stop, then (backtest and
\* backtest_trailing with a kept target only) target
SameBarCheck(s, v, bar) ==
    LET stop_hit == IF s.pos_type = 1 THEN bar.low <= s.stop_price
                                      ELSE bar.high >= s.stop_price
        target_hit == KeepsTarget(v) /\
                      (IF s.pos_type = 1 THEN bar.high >= s.target_price
                                         ELSE bar.low <= s.target_price)
    IN  IF stop_hit THEN [reason |-> "STOP", price |-> s.stop_price]
        ELSE IF target_hit THEN [reason |-> "TARGET", price |-> s.target_price]
        ELSE NoExit

TradePnl(s, exit_price) ==
    (IF s.pos_type = 1
     THEN (exit_price - s.entry_price) * SimParams.point_value
     ELSE (s.entry_price - exit_price) * SimParams.point_value)
    - SimParams.commission

\* consec_losses after a close in the exit block
ConsecAfterExit(consec_losses, pnl) ==
    IF pnl > 0 THEN 0
    ELSE IF pnl < 0 THEN consec_losses + 1
    ELSE 0

ConsecNeverReset(consec_losses, pnl) ==
    IF pnl < 0 THEN consec_losses + 1 ELSE consec_losses

\* consec_losses after a close on the fill bar: there is no else branch
ConsecAfterSameBarExit(consec_losses, pnl) ==
    IF pnl > 0 THEN 0
    ELSE IF pnl < 0 THEN consec_losses + 1
    ELSE consec_losses

TradeRecord(s, v, ex, bars_held, same_bar) ==
    [signal_bar |-> s.trade_signal_bar,
     entry_bar |-> s.entry_bar,
     exit_bar |-> s.i,
     direction |-> IF s.pos_type = 1 THEN "LONG" ELSE "SHORT",
     entry_price |-> s.entry_price,
     exit_price |-> ex.price,
     stop |-> IF HasTrail(v) THEN s.initial_stop ELSE s.stop_price,
     final_stop |-> s.stop_price,
     target |-> IF KeepsTarget(v) THEN s.target_price ELSE 0,
     pnl |-> TradePnl(s, ex.price),
     bars_held |-> bars_held,
     exit_reason |-> ex.reason,
     trail_count |-> IF same_bar THEN 0 ELSE s.trail_count,
     date |-> s.current_date]

\* the position is closed: P&L, risk counters, trade record
ClosePosition(s, v, ex, same_bar) ==
    LET pnl == TradePnl(s, ex.price)
    IN  [s EXCEPT !.in_position = FALSE,
                  !.daily_pnl = @ + pnl,
                  !.consec_losses = IF same_bar
                                    THEN ConsecAfterSameBarExit(@, pnl)
                                    ELSE ConsecAfterExit(@, pnl)]

FillKeepingOrder(s, fill_price) ==
    [s EXCEPT !.in_position = TRUE,
              !.pos_type = s.pending_dir,
              !.entry_bar = s.i,
              !.entry_price = fill_price,
              !.stop_price = s.pending_stop,
              !.initial_stop = s.pending_stop,
              !.target_price = s.pending_target,
              !.trade_signal_bar = s.pending_signal_bar,
              !.be_moved = FALSE,
              !.trail_count = 0]

\* the pending order becomes the position
FillPending(s, fill_price) ==
    [s EXCEPT !.in_position = TRUE,
              !.pos_type = s.pending_dir,
              !.entry_bar = s.i,
              !.entry_price = fill_price,
              !.stop_price = s.pending_stop,
              !.initial_stop = s.pending_stop,
              !.target_price = s.pending_target,
              !.trade_signal_bar = s.pending_signal_bar,
              !.has_pending = FALSE,
              !.be_moved = FALSE,
              !.trail_count = 0]

\* does bar i fill the pending order and at what price
Filled(s, v, bar) ==
    CASE OrderType(v) = "market" -> TRUE
      [] OrderType(v) = "limit" ->
            IF s.pending_dir = 1 THEN bar.low <= s.pending_price
                                 ELSE bar.high >= s.pending_price
      [] OTHER ->
            IF s.pending_dir = 1 THEN bar.high >= s.pending_price
                                 ELSE bar.low <= s.pending_price

FillPrice(s, v, bar) ==
    LET slip == IF s.pending_dir = 1 THEN SimParams.slippage
                                     ELSE 0 - SimParams.slippage
    IN  CASE OrderType(v) = "market" -> bar.open + slip
          [] OrderType(v) = "limit" -> s.pending_price
          [] OTHER -> s.pending_price + slip

ExpiredAtTimeout(s, v) ==
    OrderType(v) # "market" /\ s.i - s.pending_placed_bar >= SimParams.order_timeout

Expired(s, v) ==
    OrderType(v) # "market" /\ s.i - s.pending_placed_bar > SimParams.order_timeout

AtrUnchecked(s, v, sg) ==
    /\ sg.sig # 0
    /\ ~IsNaN(sg.stop)
    /\ (OrderType(v) = "market" => ~IsNaN(sg.target))
    /\ (OrderType(v) # "market" => ~IsNaN(sg.entry))
    /\ (HasGrid(v) => sg.cell_ok)

\* is the signal at the index the loop reads one it can act on
SignalValid(s, v, sg) ==
    /\ sg.sig # 0
    /\ CASE v.fn = "backtest" -> ~IsNaN(sg.atr) /\ sg.atr # 0
         [] v.fn = "backtest_v2" -> TRUE
         [] OTHER -> ~IsNaN(s.atr_prev) /\ s.atr_prev # 0
    /\ ~IsNaN(sg.stop)
    /\ (OrderType(v) = "market" => ~IsNaN(sg.target))
    /\ (OrderType(v) # "market" => ~IsNaN(sg.entry))
    /\ (HasGrid(v) => sg.cell_ok)

NeverTripped(s) == FALSE

\* the CIRCUIT BREAKERS block
BreakerTripped(s) ==
    \/ s.daily_pnl <= SimParams.max_daily_loss
    \/ s.consec_losses >= SimParams.max_consec_losses

PlaceWhileInPosition(s, v, inp) ==
    ~BreakerTripped(s) /\ inp.in_rth /\ SignalValid(s, v, inp.signal)

\* breakers, position check, RTH filter and signal checks all pass
MayPlace(s, v, inp) ==
    /\ ~BreakerTripped(s)
    /\ ~s.in_position
    /\ inp.in_rth
    /\ SignalValid(s, v, inp.signal)

PlacePending(s, v, sg) ==
    [s EXCEPT !.has_pending = TRUE,
              !.pending_dir = sg.sig,
              !.pending_price = IF OrderType(v) = "market" THEN 0 ELSE sg.entry,
              !.pending_stop = sg.stop,
              !.pending_target = IF v.fn \in {"backtest", "backtest_trailing"}
                                 THEN sg.target ELSE 0,
              !.pending_signal_bar = IF v.fn = "backtest_v2" THEN s.i ELSE s.i - 1,
              !.pending_placed_bar = IF OrderType(v) = "market" THEN 0 ELSE s.i]

\* what one iteration took: its branch, the loop variables and the trades
Outcome(path, s, trs) == [path |-> path, bt |-> s, trades |-> trs]

EntryBlock(s, trs, v, inp, path) ==
    IF MayPlace(s, v, inp)
    THEN Outcome(IF path = "expire" THEN "expire" ELSE "place",
                 PlacePending(s, v, inp.signal), trs)
    ELSE Outcome(path, s, trs)

PendingBlock(s, trs, v, inp) ==
    IF s.has_pending /\ ~s.in_position
    THEN IF Expired(s, v)
         THEN EntryBlock([s EXCEPT !.has_pending = FALSE], trs, v, inp, "expire")
         ELSE IF Filled(s, v, inp.bar)
         THEN LET \* backtest_v2 counts its fills
                  f == [FillPending(s, FillPrice(s, v, inp.bar)) EXCEPT
                           !.total_fills = IF v.fn = "backtest_v2" THEN @ + 1 ELSE @]
                  ex == SameBarCheck(f, v, inp.bar)
              IN  IF ex.reason # "NONE"
                  THEN Outcome("fill_exit", ClosePosition(f, v, ex, TRUE),
                               Append(trs, TradeRecord(f, v, ex, 0, TRUE)))
                  ELSE Outcome("fill", f, trs)
         ELSE EntryBlock(s, trs, v, inp, "idle")
    ELSE EntryBlock(s, trs, v, inp, "idle")

\* one iteration of `for i in range(1, n)`
BarStep(s, trs, v, inp) ==
    LET s0 == DayReset([s EXCEPT !.i = @ + 1, !.bar = inp.bar,
                                 !.in_rth = inp.in_rth], inp.date)
        s1 == IF HasTrail(v) /\ s0.in_position
              THEN TrailingStopUpdate(s0, v, inp.trail)
              ELSE s0
        bars_held == s1.i - s1.entry_bar
        ex == IF s1.in_position THEN ExitLogic(s1, v, inp.bar, bars_held) ELSE NoExit
        out == IF ex.reason # "NONE"
               THEN Outcome("exit", ClosePosition(s1, v, ex, FALSE),
                            Append(trs, TradeRecord(s1, v, ex, bars_held, FALSE)))
               ELSE PendingBlock(s1, trs, v, inp)
    IN  [out EXCEPT !.bt.atr_prev = IF HasTrail(v) THEN inp.trail.atr ELSE @]

PipeIdle == df = <<>> /\ params = Unset /\ data = Unset /\ signals = Unset

SimInit(fns) ==
    /\ PipeIdle
    /\ AbIdle
    /\ variant \in VariantsOf(fns)
    /\ bt = BacktestInit
    /\ trades = <<>>

\* the loop takes bar bt.i + 1 through one of the branches `paths`
Bar(fns, paths) ==
    /\ variant \in VariantsOf(fns)
    /\ bt.i < SimMaxBar
    /\ \E inp \in BarInputs(variant, bt) :
          LET out == BarStep(bt, trades, variant, inp)
          IN  /\ out.path \in paths
              /\ bt' = out.bt
              /\ trades' = out.trades
    /\ UNCHANGED <<df, params, data, signals, variant, ab>>

Backtest == {"backtest"}

\* the exit block closes the position
BacktestExit == bt.in_position /\ Bar(Backtest, {"exit"})
\* the pending order fills at the open (and may stop out on the same bar)
BacktestFill == bt.has_pending /\ ~bt.in_position /\ Bar(Backtest, {"fill", "fill_exit"})
\* a signal on the previous bar becomes the pending order
BacktestPlace == ~bt.in_position /\ ~bt.has_pending /\ Bar(Backtest, {"place"})
\* nothing to do on this bar: position held, or no order placed
BacktestSkip == ~bt.has_pending /\ Bar(Backtest, {"idle"})

BacktestNext == BacktestExit \/ BacktestFill \/ BacktestPlace \/ BacktestSkip

SpecBacktest == SimInit(Backtest) /\ [][BacktestNext]_vars

AllPaths == {"exit", "fill", "fill_exit", "expire", "place", "idle"}

\* one iteration of the loop of each function
BacktestBar == Bar({"backtest"}, AllPaths)
BacktestTrailingBar == Bar({"backtest_trailing"}, AllPaths)
BacktestGridBar == Bar({"backtest_grid"}, AllPaths)
BacktestGridLimitBar == Bar({"backtest_grid_limit"}, AllPaths)
BacktestV2Bar == Bar({"backtest_v2"}, AllPaths)

SimNext ==
    \/ BacktestBar
    \/ BacktestTrailingBar
    \/ BacktestGridBar
    \/ BacktestGridLimitBar
    \/ BacktestV2Bar

SpecSimulators == SimInit(Functions) /\ [][SimNext]_vars

----------------------------------------------------------------------------
(* AlBrooksV2Strategy: one strategy object, its reset_state and its        *)
(* run_backtest.  Prices are whole ticks (tick_size 1); the ATR is kept as *)
(* atr_period * atr, the EMA as (trend_ema_period + 1)^idx * ema, and the  *)
(* fractional parameters as tenths or hundredths, so every comparison of  *)
(* the source is an exact integer comparison here.                        *)

\* longest series handed to run_backtest
AbMaxBars == 24
\* shortest input series
AbMinBars == 18
\* run_backtest calls made on the one strategy object
MaxRuns == 2

\* Python's None in the index-valued attributes
None == -1

\* self.params, sized for the model
AbParams ==
    [trend_ema_period |-> 3,
     trend_slope_threshold_x100 |-> 3,
     trend_slope_lookback |-> 1,
     rth_only |-> TRUE,
     rth_start |-> 510,
     rth_end |-> 900,
     sr_lookback |-> 100,
     sr_proximity_ticks |-> 1,
     sr_min_touches |-> 2,
     sr_swing_strength |-> 2,
     pullback_min_size_x10 |-> 3,
     pattern_timeout |-> 3,
     pattern_validity |-> 3,
     ema_pullback_proximity |-> 1,
     min_bar_size_atr_x10 |-> 2,
     max_bar_size_atr |-> 3,
     min_body_ratio_x10 |-> 3,
     max_wick_ratio_x10 |-> 7,
     min_signal_quality |-> 40,
     atr_period |-> 1,
     stop_offset_ticks |-> 1,
     tick_size |-> 1,
     tick_value |-> 1,
     max_stop_atr_x2 |-> 3,
     reward_risk_ratio_x2 |-> 3,
     min_target_ticks |-> 2,
     max_hold_bars |-> 2,
     use_breakeven_trail |-> TRUE,
     min_bars_before_stop |-> 0,
     use_atr_trail |-> FALSE,
     atr_trail_activation |-> 1,
     atr_trail_distance |-> 1,
     daily_loss_limit |-> -6,
     max_consecutive_losses |-> 2,
     with_trend_needs_sr |-> FALSE,
     counter_trend_allowed |-> TRUE,
     ema_pullback_enabled |-> TRUE,
     sideways_entries_allowed |-> TRUE,
     allow_shorts |-> TRUE,
     min_stop_ticks |-> 0]

\* df['tr']: NaN at the first row, where close.shift(1) is NaN
AbTrueRange(frame, i) ==
    IF i = 0 THEN NaN
    ELSE Max2(frame[i].high - frame[i].low,
              Max2(Abs(frame[i].high - frame[i - 1].close),
                   Abs(frame[i].low - frame[i - 1].close)))

\* atr_period * df['atr']: rolling(window).mean() is NaN until the window
\* holds atr_period defined true ranges
AbAtr(frame, i) ==
    LET period == AbParams.atr_period
        tr == [j \in DOMAIN frame |-> AbTrueRange(frame, j)]
    IN  IF i >= period THEN SumTo(tr, i - period + 1, i) ELSE NaN

RECURSIVE Gcd(_, _)
Gcd(a, b) == IF b = 0 THEN a ELSE Gcd(b, a % b)

\* the fraction num / den (den > 0) in lowest terms
Fraction(num, den) ==
    LET g == Gcd(Abs(num), den)
    IN  [num |-> num \div g, den |-> den \div g]

\* df['ema'] as a fraction: ewm(span, adjust=False).mean() starts at the
\* first close and then moves alpha = 2 / (span + 1) of the way to each close
RECURSIVE AbEma(_, _)
AbEma(frame, i) ==
    LET span == AbParams.trend_ema_period
        prev == AbEma(frame, i - 1)
    IN  IF i = 0 THEN [num |-> frame[0].close, den |-> 1]
        ELSE Fraction(2 * frame[i].close * prev.den + (span - 1) * prev.num,
                      (span + 1) * prev.den)

\* df['is_rth']: the bar's time of day within [rth_start, rth_end)
IsRth(minute) ==
    IF AbParams.rth_only
    THEN minute >= AbParams.rth_start /\ minute < AbParams.rth_end
    ELSE TRUE

\* prepare_data: a copy of the frame with its atr (times atr_period), ema
\* and is_rth columns
prepare_data(frame) ==
    [i \in DOMAIN frame |->
        [open |-> frame[i].open, high |-> frame[i].high,
         low |-> frame[i].low, close |-> frame[i].close,
         time |-> frame[i].time, is_rth |-> IsRth(frame[i].time.minute),
         atr |-> AbAtr(frame, i), ema |-> AbEma(frame, i)]]

\* detect_trend: close against the EMA and the EMA's slope over
\* trend_slope_lookback bars, in ATRs per bar, against the threshold
detect_trend(d, idx) ==
    LET lookback == AbParams.trend_slope_lookback
        atr == d[idx].atr
        ema == d[idx].ema
        ema_prev == d[idx - lookback].ema
        \* (ema_now - ema_prev) * ema.den * ema_prev.den
        rise == ema.num * ema_prev.den - ema_prev.num * ema.den
        \* slope > threshold, slope < -threshold, cleared of denominators
        lhs == rise * AbParams.atr_period * 100
        rhs == AbParams.trend_slope_threshold_x100 * lookback * atr
               * ema.den * ema_prev.den
    IN  IF idx < Max2(AbParams.trend_ema_period, lookback) THEN "SIDEWAYS"
        ELSE IF IsNaN(atr) \/ atr <= 0 THEN "SIDEWAYS"
        ELSE IF d[idx].close * ema.den > ema.num /\ lhs > rhs THEN "UP"
        ELSE IF d[idx].close * ema.den < ema.num /\ lhs < 0 - rhs THEN "DOWN"
        ELSE "SIDEWAYS"

\* identify_key_levels needs this much history
MinSrLookback == 10

\* bars the H2/L2 machines look back for a new extreme
ExtremeLookback == 20

\* SecondEntryState()
SecondEntryState ==
    [new_extreme_idx |-> None, new_extreme_price |-> NaN,
     is_tracking_high |-> FALSE,
     pullback_idx |-> None, pullback_price |-> NaN,
     first_entry_idx |-> None, entry_count |-> 0, second_entry_bar |-> None]

MaxOf(S) == CHOOSE x \in S : \A y \in S : y <= x
MinOf(S) == CHOOSE x \in S : \A y \in S : y >= x

\* the validity window of a completed second entry has run out
ExpireSecondEntry(state, idx) ==
    IF state.second_entry_bar # None
       /\ idx - state.second_entry_bar >= AbParams.pattern_validity
    THEN [state EXCEPT !.second_entry_bar = None, !.entry_count = 0]
    ELSE state

\* _update_h2_state: new high, pullback, first and second bounce
update_h2_state(state, d, idx) ==
    LET high == d[idx].high
        low == d[idx].low
        atr == d[idx].atr
        timeout == AbParams.pattern_timeout
        s1 == ExpireSecondEntry(state, idx)
        lookback_start == Max2(0, idx - ExtremeLookback)
        recent_high == IF idx > lookback_start
                       THEN MaxOf({ d[j].high : j \in lookback_start..(idx - 1) })
                       ELSE 0
    IN  IF high > recent_high
        THEN [s1 EXCEPT !.new_extreme_idx = idx, !.new_extreme_price = high,
                        !.is_tracking_high = TRUE,
                        !.pullback_idx = None, !.pullback_price = NaN,
                        !.first_entry_idx = None, !.entry_count = 0,
                        !.second_entry_bar = None]
        ELSE IF s1.new_extreme_idx = None THEN s1
        ELSE IF idx - s1.new_extreme_idx > timeout
        THEN [s1 EXCEPT !.new_extreme_idx = None]
        ELSE IF s1.pullback_idx = None
        THEN IF (s1.new_extreme_price - low) * 10 * AbParams.atr_period
                >= AbParams.pullback_min_size_x10 * atr
             THEN [s1 EXCEPT !.pullback_idx = idx, !.pullback_price = low]
             ELSE s1
        ELSE IF s1.entry_count = 0 /\ s1.first_entry_idx = None
        THEN IF idx > s1.pullback_idx /\ high > d[idx - 1].high
             THEN [s1 EXCEPT !.first_entry_idx = idx, !.entry_count = 1]
             ELSE s1
        ELSE IF s1.entry_count = 1
        THEN IF idx - s1.first_entry_idx > timeout
             THEN [s1 EXCEPT !.entry_count = 0, !.first_entry_idx = None]
             ELSE IF /\ high > d[idx - 1].high
                     /\ idx > s1.first_entry_idx
                     /\ MaxOf({ d[j].high : j \in s1.first_entry_idx..(idx - 1) })
                          <= s1.new_extreme_price
             THEN [s1 EXCEPT !.entry_count = 2, !.second_entry_bar = idx]
             ELSE s1
        ELSE s1

\* _update_l2_state: the mirror image on lows
update_l2_state(state, d, idx) ==
    LET high == d[idx].high
        low == d[idx].low
        atr == d[idx].atr
        timeout == AbParams.pattern_timeout
        s1 == ExpireSecondEntry(state, idx)
        lookback_start == Max2(0, idx - ExtremeLookback)
    IN  IF idx <= lookback_start
           \/ low < MinOf({ d[j].low : j \in lookback_start..(idx - 1) })
        THEN [s1 EXCEPT !.new_extreme_idx = idx, !.new_extreme_price = low,
                        !.is_tracking_high = FALSE,
                        !.pullback_idx = None, !.pullback_price = NaN,
                        !.first_entry_idx = None, !.entry_count = 0,
                        !.second_entry_bar = None]
        ELSE IF s1.new_extreme_idx = None THEN s1
        ELSE IF idx - s1.new_extreme_idx > timeout
        THEN [s1 EXCEPT !.new_extreme_idx = None]
        ELSE IF s1.pullback_idx = None
        THEN IF (high - s1.new_extreme_price) * 10 * AbParams.atr_period
                >= AbParams.pullback_min_size_x10 * atr
             THEN [s1 EXCEPT !.pullback_idx = idx, !.pullback_price = high]
             ELSE s1
        ELSE IF s1.entry_count = 0 /\ s1.first_entry_idx = None
        THEN IF idx > s1.pullback_idx /\ low < d[idx - 1].low
             THEN [s1 EXCEPT !.first_entry_idx = idx, !.entry_count = 1]
             ELSE s1
        ELSE IF s1.entry_count = 1
        THEN IF idx - s1.first_entry_idx > timeout
             THEN [s1 EXCEPT !.entry_count = 0, !.first_entry_idx = None]
             ELSE IF /\ low < d[idx - 1].low
                     /\ idx > s1.first_entry_idx
                     /\ MinOf({ d[j].low : j \in s1.first_entry_idx..(idx - 1) })
                          >= s1.new_extreme_price
             THEN [s1 EXCEPT !.entry_count = 2, !.second_entry_bar = idx]
             ELSE s1
        ELSE s1

\* update_pattern_states: H2 outside a down trend, L2 outside an up trend
update_pattern_states(self, d, idx) ==
    LET trend == detect_trend(d, idx)
    IN  IF idx < 3 \/ Le(d[idx].atr, 0) THEN self
        ELSE [self EXCEPT
                !.h2_state = IF trend # "DOWN" THEN update_h2_state(@, d, idx) ELSE @,
                !.l2_state = IF trend # "UP" THEN update_l2_state(@, d, idx) ELSE @]

LongPatterns == {"H2", "EMA_PB_LONG"}

detect_patterns_any_trend(self, d, idx, trend) ==
    LET h2 == IF /\ self.h2_state.entry_count = 2
                 /\ self.h2_state.second_entry_bar # None
                 /\ idx - self.h2_state.second_entry_bar < AbParams.pattern_validity
              THEN <<"H2">> ELSE <<>>
        l2 == IF /\ self.l2_state.entry_count = 2
                 /\ self.l2_state.second_entry_bar # None
                 /\ idx - self.l2_state.second_entry_bar < AbParams.pattern_validity
              THEN <<"L2">> ELSE <<>>
        period == AbParams.atr_period
        ema == d[idx].ema
        proximity == AbParams.ema_pullback_proximity * d[idx].atr * ema.den
        ema_pb ==
            IF ~AbParams.ema_pullback_enabled THEN <<>>
            ELSE IF /\ trend = "UP"
                    /\ d[idx].low * ema.den * period <= ema.num * period + proximity
                    /\ d[idx].close * ema.den > ema.num
                    /\ idx > 0 /\ d[idx].close > d[idx - 1].close
            THEN <<"EMA_PB_LONG">>
            ELSE IF /\ trend = "DOWN"
                    /\ d[idx].high * ema.den * period >= ema.num * period - proximity
                    /\ d[idx].close * ema.den < ema.num
                    /\ idx > 0 /\ d[idx].close < d[idx - 1].close
            THEN <<"EMA_PB_SHORT">>
            ELSE <<>>
    IN  h2 \o l2 \o ema_pb

\* detect_patterns: the active patterns, second entries first
detect_patterns(self, d, idx, trend) ==
    LET h2 == IF /\ self.h2_state.entry_count = 2
                 /\ self.h2_state.second_entry_bar # None
                 /\ idx - self.h2_state.second_entry_bar < AbParams.pattern_validity
                 /\ trend \in {"UP", "SIDEWAYS"}
              THEN <<"H2">> ELSE <<>>
        l2 == IF /\ self.l2_state.entry_count = 2
                 /\ self.l2_state.second_entry_bar # None
                 /\ idx - self.l2_state.second_entry_bar < AbParams.pattern_validity
                 /\ trend \in {"DOWN", "SIDEWAYS"}
              THEN <<"L2">> ELSE <<>>
        period == AbParams.atr_period
        ema == d[idx].ema
        \* ema_pullback_proximity * atr, times atr_period * ema.den
        proximity == AbParams.ema_pullback_proximity * d[idx].atr * ema.den
        ema_pb ==
            IF ~AbParams.ema_pullback_enabled THEN <<>>
            ELSE IF /\ trend = "UP"
                    /\ d[idx].low * ema.den * period <= ema.num * period + proximity
                    /\ d[idx].close * ema.den > ema.num
                    /\ idx > 0 /\ d[idx].close > d[idx - 1].close
            THEN <<"EMA_PB_LONG">>
            ELSE IF /\ trend = "DOWN"
                    /\ d[idx].high * ema.den * period >= ema.num * period - proximity
                    /\ d[idx].close * ema.den < ema.num
                    /\ idx > 0 /\ d[idx].close < d[idx - 1].close
            THEN <<"EMA_PB_SHORT">>
            ELSE <<>>
    IN  h2 \o l2 \o ema_pb

\* analyze_signal_bar: quality_score as a fraction [num, den] (den is the
\* bar's range, the denominator of body_ratio)
analyze_signal_bar(d, idx, pattern) ==
    LET bar == d[idx]
        atr == bar.atr
        period == AbParams.atr_period
        bar_range == bar.high - bar.low
        body_size == Abs(bar.close - bar.open)
        upper_wick == bar.high - Max2(bar.open, bar.close)
        lower_wick == Min2(bar.open, bar.close) - bar.low
        is_bullish == bar.close > bar.open
        is_long == pattern \in LongPatterns
        den == IF bar_range > 0 THEN bar_range ELSE 1
        size_penalty ==
            IF bar_range * 10 * period < AbParams.min_bar_size_atr_x10 * atr THEN 40
            ELSE IF bar_range * period > AbParams.max_bar_size_atr * atr THEN 30
            ELSE 0
        \* body_ratio < min_body_ratio: -30, else + min(20, body_ratio * 20)
        body_num ==
            IF bar_range = 0 \/ body_size * 10 < AbParams.min_body_ratio_x10 * bar_range
            THEN (0 - 30) * den
            ELSE Min2(20 * den, body_size * 20)
        wick_penalty ==
            IF is_long
            THEN IF bar_range > 0 /\ upper_wick * 10 > bar_range * AbParams.max_wick_ratio_x10
                 THEN 25 ELSE 0
            ELSE IF bar_range > 0 /\ lower_wick * 10 > bar_range * AbParams.max_wick_ratio_x10
                 THEN 25 ELSE 0
        direction_penalty ==
            IF is_long /\ ~is_bullish THEN 35
            ELSE IF ~is_long /\ is_bullish THEN 35
            ELSE 0
        num == (100 - size_penalty - wick_penalty - direction_penalty) * den + body_num
    IN  [num |-> Max2(0, Min2(120 * den, num)), den |-> den]

\* Python's round(): a / b to the nearest integer, ties to the even one
RoundHalfEven(a, b) ==
    LET f == a \div b
        r == a % b
    IN  IF 2 * r < b THEN f
        ELSE IF 2 * r > b THEN f + 1
        ELSE IF f % 2 = 0 THEN f ELSE f + 1

\* calculate_entry_stop_target: entry at the close, stop beyond the bar's
\* extreme but at most max_stop_atr ATRs away, target at reward_risk_ratio
\* times the risk and at least min_target_ticks away, both rounded to ticks
calculate_entry_stop_target(d, idx, pattern) ==
    LET tick == AbParams.tick_size
        offset == AbParams.stop_offset_ticks * tick
        is_long == pattern \in LongPatterns
        entry == d[idx].close
        \* all distances in units of 1 / q, q = 4 * atr_period
        q == 4 * AbParams.atr_period
        max_stop == AbParams.max_stop_atr_x2 * d[idx].atr * 2
        raw_stop == IF is_long THEN d[idx].low - offset ELSE d[idx].high + offset
        raw_dist == (IF is_long THEN entry - raw_stop ELSE raw_stop - entry) * q
        capped == raw_dist > max_stop
        stop_dist == IF capped THEN max_stop ELSE raw_dist
        stop_q == IF is_long THEN entry * q - stop_dist ELSE entry * q + stop_dist
        \* stop_dist * reward_risk_ratio, in units of 1 / (2 q)
        reward == stop_dist * AbParams.reward_risk_ratio_x2
        min_target_dist == AbParams.min_target_ticks * tick * 2 * q
        target_dist == IF reward < min_target_dist THEN min_target_dist ELSE reward
        target_2q == IF is_long THEN entry * 2 * q + target_dist
                                ELSE entry * 2 * q - target_dist
    IN  [entry |-> entry,
         stop |-> RoundHalfEven(stop_q, q * tick) * tick,
         target |-> RoundHalfEven(target_2q, 2 * q * tick) * tick]

\* len(df)
FrameLen(d) == Cardinality(DOMAIN d)

\* a bar strictly beyond its `strength` neighbours on each side
IsSwing(d, i, strength, column, sign) ==
    \A j \in 1..strength :
        /\ i - j >= 0 /\ i + j < FrameLen(d)
        /\ sign * d[i][column] > sign * d[i - j][column]
        /\ sign * d[i][column] > sign * d[i + j][column]

\* sorted(swings, key = price): stable, so equal prices stay in bar order
RECURSIVE SortedSwings(_)
SortedSwings(S) ==
    IF S = {} THEN <<>>
    ELSE LET first == CHOOSE x \in S : \A y \in S :
                          \/ x.price < y.price
                          \/ x.price = y.price /\ x.idx <= y.idx
         IN  <<first>> \o SortedSwings(S \ {first})

\* a cluster's (avg, indices): the mean price rounded to the tick
ClusterOf(current) ==
    LET tick == AbParams.tick_size
    IN  [price |-> RoundHalfEven(SumTo([k \in 1..Len(current) |-> current[k].price],
                                       1, Len(current)),
                                 Len(current) * tick) * tick,
         indices |-> { current[k].idx : k \in 1..Len(current) }]

RECURSIVE ClusterFrom(_, _, _, _)
ClusterFrom(sorted, k, current, proximity) ==
    IF k > Len(sorted) THEN <<ClusterOf(current)>>
    ELSE IF Abs(sorted[k].price - current[1].price) <= proximity
    THEN ClusterFrom(sorted, k + 1, Append(current, sorted[k]), proximity)
    ELSE <<ClusterOf(current)>> \o ClusterFrom(sorted, k + 1, <<sorted[k]>>, proximity)

\* _cluster_swings: swings in price order, gathered while within proximity
\* of the cluster's first price
cluster_swings(swings, proximity) ==
    LET sorted == SortedSwings(swings)
    IN  IF swings = {} THEN <<>>
        ELSE ClusterFrom(sorted, 2, <<sorted[1]>>, proximity)

KeyLevelsOf(clusters, level_type) ==
    LET kept == SelectSeq(clusters,
                          LAMBDA c : Cardinality(c.indices) >= AbParams.sr_min_touches)
    IN  [k \in 1..Len(kept) |->
            [price |-> kept[k].price, level_type |-> level_type,
             strength |-> Cardinality(kept[k].indices),
             first_touch_idx |-> MinOf(kept[k].indices),
             last_touch_idx |-> MaxOf(kept[k].indices)]]

\* identify_key_levels: resistance from clustered swing highs, then support
\* from clustered swing lows
identify_key_levels(d, idx) ==
    LET lookback == Min2(AbParams.sr_lookback, idx)
        strength == AbParams.sr_swing_strength
        start_idx == Max2(strength, idx - lookback)
        end_idx == idx - strength
        swing_highs == { [idx |-> i, price |-> d[i].high] :
                           i \in { k \in start_idx..end_idx : IsSwing(d, k, strength, "high", 1) } }
        swing_lows == { [idx |-> i, price |-> d[i].low] :
                          i \in { k \in start_idx..end_idx : IsSwing(d, k, strength, "low", -1) } }
        proximity == AbParams.sr_proximity_ticks * AbParams.tick_size
    IN  IF lookback < MinSrLookback \/ idx < strength * 2 + 1 THEN <<>>
        ELSE IF start_idx >= end_idx THEN <<>>
        ELSE KeyLevelsOf(cluster_swings(swing_highs, proximity), "RESISTANCE")
             \o KeyLevelsOf(cluster_swings(swing_lows, proximity), "SUPPORT")

\* no key level: recorded in a trade as 'NONE' at price 0
NoKeyLevel ==
    [price |-> 0, level_type |-> "NONE", strength |-> 0,
     first_touch_idx |-> None, last_touch_idx |-> None]

RECURSIVE BestLevelFrom(_, _, _, _, _, _)
BestLevelFrom(levels, k, best_level, best_dist, bar, proximity) ==
    IF k > Len(levels) THEN best_level
    ELSE LET level == levels[k]
             dist == IF level.level_type = "RESISTANCE"
                     THEN Abs(bar.high - level.price)
                     ELSE Abs(bar.low - level.price)
             near == \/ dist <= proximity
                     \/ bar.low < level.price /\ level.price < bar.high
             better == near /\ (best_dist = None \/ dist < best_dist)
         IN  IF better
             THEN BestLevelFrom(levels, k + 1, level, dist, bar, proximity)
             ELSE BestLevelFrom(levels, k + 1, best_level, best_dist, bar, proximity)

\* is_at_key_level: the nearest level the bar touches or straddles, the
\* earlier one on a tie
is_at_key_level(d, idx, levels) ==
    BestLevelFrom(levels, 1, NoKeyLevel, None, d[idx],
                  AbParams.sr_proximity_ticks * AbParams.tick_size)

\* self.current_trade = None
NoTrade == [entry_idx |-> None]

\* AlBrooksV2Strategy(params): the attributes as __init__ leaves them
AlBrooksV2Strategy ==
    [in_position |-> FALSE, position_type |-> "NONE",
     entry_bar |-> None, entry_price |-> None, stop_price |-> None,
     original_stop |-> None, target_price |-> None,
     daily_pnl |-> 0, consecutive_losses |-> 0, last_rth_date |-> None,
     trades |-> <<>>, current_trade |-> NoTrade,
     h2_state |-> SecondEntryState, l2_state |-> SecondEntryState,
     key_levels |-> <<>>]

\* a reset_state that keeps the key levels of the previous run
ResetKeepingKeyLevels(self) == [AlBrooksV2Strategy EXCEPT !.key_levels = self.key_levels]

\* reset_state: every attribute a run writes, back to its initial value
reset_state(self) == AlBrooksV2Strategy

\* _exit_trade: book the pnl, update the risk counters, record the trade,
\* clear the position (with tick_size 1 and whole prices the pnl is whole,
\* and round(., 2) leaves it alone)
exit_trade(self, d, idx, exit_price, reason) ==
    LET is_long == self.position_type = "LONG"
        pnl_ticks == IF is_long
                     THEN (exit_price - self.entry_price) \div AbParams.tick_size
                     ELSE (self.entry_price - exit_price) \div AbParams.tick_size
        pnl_dollars == pnl_ticks * AbParams.tick_value
        closed == [exit_time |-> d[idx].time, exit_idx |-> idx,
                   exit_price |-> exit_price, exit_reason |-> reason,
                   pnl_ticks |-> pnl_ticks, pnl_dollars |-> pnl_dollars,
                   bars_held |-> idx - self.entry_bar] @@ self.current_trade
    IN  [self EXCEPT
            !.daily_pnl = @ + pnl_dollars,
            !.consecutive_losses = IF pnl_dollars < 0 THEN @ + 1 ELSE 0,
            !.trades = Append(@, closed),
            !.in_position = FALSE, !.position_type = "NONE",
            !.entry_bar = None, !.entry_price = None, !.stop_price = None,
            !.original_stop = None, !.target_price = None,
            !.current_trade = NoTrade]

\* the trailing tail of _manage_position: the ATR trail when enabled, else
\* the move to breakeven once the bar has run one initial risk in favour
TrailStop(self, d, idx) ==
    LET high == d[idx].high
        low == d[idx].low
        atr == IF IsNaN(d[idx].atr) THEN 0 ELSE d[idx].atr
        period == AbParams.atr_period
        tick == AbParams.tick_size
        is_long == self.position_type = "LONG"
        risk == Abs(self.entry_price - self.original_stop)
        activation == AbParams.atr_trail_activation * risk
        \* atr_trail_distance * atr, times atr_period
        trail_dist == AbParams.atr_trail_distance * atr
        unrealized == IF is_long THEN high - self.entry_price
                                 ELSE self.entry_price - low
        \* new_stop, times atr_period
        new_stop == IF is_long THEN high * period - trail_dist
                               ELSE low * period + trail_dist
    IN  IF AbParams.use_atr_trail /\ atr > 0
        THEN IF /\ unrealized >= activation
                /\ IF is_long THEN new_stop > self.stop_price * period
                              ELSE new_stop < self.stop_price * period
             THEN [self EXCEPT !.stop_price = RoundHalfEven(new_stop, period * tick) * tick]
             ELSE self
        ELSE IF AbParams.use_breakeven_trail /\ ~AbParams.use_atr_trail
        THEN IF /\ risk > 0
                /\ unrealized >= risk
                /\ IF is_long THEN self.stop_price < self.entry_price
                              ELSE self.stop_price > self.entry_price
             THEN [self EXCEPT !.stop_price = self.entry_price]
             ELSE self
        ELSE self

\* _manage_position: stop (after the grace period), then target (fixed
\* target mode), then the time exit, then the trailing stop
manage_position(self, d, idx) ==
    LET high == d[idx].high
        low == d[idx].low
        is_long == self.position_type = "LONG"
        bars_held == idx - self.entry_bar
        grace == AbParams.min_bars_before_stop
    IN  IF /\ bars_held >= grace
           /\ IF is_long THEN low <= self.stop_price ELSE high >= self.stop_price
        THEN exit_trade(self, d, idx, self.stop_price, "STOP")
        ELSE IF /\ ~AbParams.use_atr_trail
                /\ IF is_long THEN high >= self.target_price
                              ELSE low <= self.target_price
        THEN exit_trade(self, d, idx, self.target_price, "TARGET")
        ELSE IF bars_held >= AbParams.max_hold_bars
        THEN exit_trade(self, d, idx, d[idx].close, "TIME")
        ELSE TrailStop(self, d, idx)

\* _check_entry_signals: the first active pattern, if its signal bar is
\* good enough and the S/R rule for its trend relation is met, is entered
\* at the close
EntrySignals(self, d, idx, counter_trend_allowed) ==
    LET trend == detect_trend(d, idx)
        detected == detect_patterns(self, d, idx, trend)
        patterns == IF AbParams.allow_shorts THEN detected
                    ELSE SelectSeq(detected, LAMBDA p : p \in LongPatterns)
        pattern == patterns[1]
        signal_bar == analyze_signal_bar(d, idx, pattern)
        is_long == pattern \in LongPatterns
        is_with_trend == (is_long /\ trend = "UP") \/ (~is_long /\ trend = "DOWN")
        is_counter_trend == (is_long /\ trend = "DOWN") \/ (~is_long /\ trend = "UP")
        key_level == is_at_key_level(d, idx, self.key_levels)
        needs_sr == IF is_counter_trend THEN TRUE
                    ELSE IF is_with_trend THEN AbParams.with_trend_needs_sr
                    ELSE TRUE
        levels == calculate_entry_stop_target(d, idx, pattern)
        min_stop == AbParams.min_stop_ticks * AbParams.tick_size
    IN  IF trend = "SIDEWAYS" /\ ~AbParams.sideways_entries_allowed THEN self
        ELSE IF patterns = <<>> THEN self
        ELSE IF signal_bar.num < AbParams.min_signal_quality * signal_bar.den THEN self
        ELSE IF is_counter_trend /\ ~counter_trend_allowed THEN self
        ELSE IF needs_sr /\ key_level = NoKeyLevel THEN self
        ELSE IF min_stop > 0 /\ Abs(levels.entry - levels.stop) < min_stop THEN self
        ELSE [self EXCEPT
                !.in_position = TRUE,
                !.position_type = IF is_long THEN "LONG" ELSE "SHORT",
                !.entry_bar = idx,
                !.entry_price = levels.entry,
                !.stop_price = levels.stop,
                !.original_stop = levels.stop,
                !.target_price = levels.target,
                !.current_trade =
                    [entry_time |-> d[idx].time, entry_idx |-> idx,
                     entry_price |-> levels.entry, stop_price |-> levels.stop,
                     target_price |-> levels.target,
                     position_type |-> IF is_long THEN "LONG" ELSE "SHORT",
                     pattern |-> pattern, trend |-> trend,
                     key_level |-> key_level.level_type,
                     key_level_price |-> key_level.price,
                     signal_quality |-> signal_bar, atr |-> d[idx].atr],
                !.h2_state = IF pattern = "H2" THEN SecondEntryState ELSE @,
                !.l2_state = IF pattern = "L2" THEN SecondEntryState ELSE @]

\* _check_entry_signals under self.params
check_entry_signals(self, d, idx) ==
    EntrySignals(self, d, idx, AbParams.counter_trend_allowed)

\* bars between two refreshes of the key levels
KeyLevelRefresh == 20

\* the bar is outside the session, or its ATR is undefined or not positive
SkipsBar(d, idx) == ~d[idx].is_rth \/ IsNaN(d[idx].atr) \/ d[idx].atr <= 0

\* the head of a run_backtest iteration: new-day reset (closing an
\* overnight position at the open), key-level refresh, pattern states
BeginBar(self, d, idx) ==
    LET current_date == d[idx].time.date
        new_day == self.last_rth_date # None /\ current_date # self.last_rth_date
        s0 == [self EXCEPT !.daily_pnl = 0, !.consecutive_losses = 0]
        s1 == IF ~new_day THEN self
              ELSE IF self.in_position
              THEN exit_trade(s0, d, idx, d[idx].open, "NEW_DAY")
              ELSE s0
        s2 == [s1 EXCEPT !.last_rth_date = current_date]
        s3 == IF idx % KeyLevelRefresh = 0
              THEN [s2 EXCEPT !.key_levels = identify_key_levels(d, idx)]
              ELSE s2
    IN  update_pattern_states(s3, d, idx)

\* the circuit breakers that stop the search for entries
CircuitBroken(self) ==
    \/ self.daily_pnl <= AbParams.daily_loss_limit
    \/ self.consecutive_losses >= AbParams.max_consecutive_losses

\* the input frames: row i of a base series is a bar shape at a time of
\* day, BarsPerDay bars to a day, the first of them before the session
BarsPerDay == 6

BarTime(i) ==
    [date |-> (i \div BarsPerDay) + 1,
     minute |-> AbParams.rth_start - 60 + 60 * (i % BarsPerDay)]

Ohlc(o, h, l, c) == [open |-> o, high |-> h, low |-> l, close |-> c]

FrameOf(bars, n) ==
    [i \in 0..(n - 1) |->
        [open |-> bars[i + 1].open, high |-> bars[i + 1].high,
         low |-> bars[i + 1].low, close |-> bars[i + 1].close,
         time |-> BarTime(i)]]

\* the base series: whole prices whose EMA stays whole, so that the
\* comparisons of the model stay within machine integers
BaseSeries ==
  <<
    \* an up-trending series with a second-entry long
    <<
       Ohlc(12, 13, 11, 12), Ohlc(12, 14, 12, 12), Ohlc(12, 14, 12, 14),
       Ohlc(15, 15, 12, 13), Ohlc(12, 12, 11, 11), Ohlc(11, 13, 11, 12),
       Ohlc(13, 13, 10, 12), Ohlc(13, 16, 11, 14), Ohlc(15, 17, 12, 13),
       Ohlc(13, 15, 11, 15), Ohlc(15, 16, 13, 14), Ohlc(14, 17, 14, 16),
       Ohlc(15, 16, 11, 13), Ohlc(13, 14, 11, 12), Ohlc(11, 12, 8, 9),
       Ohlc(9, 11, 7, 11), Ohlc(11, 15, 11, 13), Ohlc(13, 16, 11, 16),
       Ohlc(16, 17, 13, 14), Ohlc(14, 18, 14, 18), Ohlc(18, 18, 16, 16),
       Ohlc(17, 19, 13, 14), Ohlc(14, 17, 14, 15), Ohlc(15, 21, 13, 19),
       Ohlc(19, 19, 15, 17), Ohlc(17, 17, 14, 15) >>,
    \* a series whose losses open the circuit breaker
    <<
       Ohlc(12, 12, 10, 12), Ohlc(12, 12, 12, 12), Ohlc(12, 14, 12, 12),
       Ohlc(11, 12, 10, 12), Ohlc(12, 14, 10, 12), Ohlc(12, 12, 9, 10),
       Ohlc(10, 13, 10, 13), Ohlc(14, 15, 12, 12), Ohlc(12, 13, 8, 10),
       Ohlc(10, 11, 10, 11), Ohlc(11, 13, 9, 9), Ohlc(8, 10, 8, 8),
       Ohlc(8, 13, 8, 11), Ohlc(10, 10, 9, 10), Ohlc(10, 12, 10, 12),
       Ohlc(12, 15, 12, 13), Ohlc(12, 12, 12, 12), Ohlc(13, 17, 13, 16),
       Ohlc(17, 17, 14, 14), Ohlc(14, 16, 14, 16), Ohlc(16, 18, 11, 13),
       Ohlc(13, 13, 12, 12), Ohlc(12, 13, 7, 9), Ohlc(8, 11, 8, 11),
       Ohlc(11, 12, 11, 11), Ohlc(12, 13, 8, 9) >>,
    \* a falling series with entries at support
    <<
       Ohlc(12, 12, 10, 12), Ohlc(12, 14, 10, 10), Ohlc(10, 13, 9, 13),
       Ohlc(13, 14, 11, 12), Ohlc(12, 18, 11, 16), Ohlc(16, 16, 14, 14),
       Ohlc(15, 15, 12, 12), Ohlc(12, 14, 11, 13), Ohlc(13, 15, 12, 13),
       Ohlc(13, 13, 13, 13), Ohlc(13, 16, 13, 15), Ohlc(15, 17, 8, 10),
       Ohlc(11, 11, 10, 10), Ohlc(10, 10, 9, 9), Ohlc(8, 11, 7, 10),
       Ohlc(11, 12, 10, 10), Ohlc(11, 11, 9, 10), Ohlc(10, 12, 7, 8),
       Ohlc(7, 7, 7, 7), Ohlc(7, 14, 6, 12), Ohlc(12, 13, 9, 10),
       Ohlc(10, 12, 6, 8), Ohlc(8, 8, 7, 7), Ohlc(8, 10, 8, 10),
       Ohlc(10, 11, 7, 9), Ohlc(9, 11, 9, 11) >>,
    \* a series whose second-entry short is still valid on an up-trend bar
    <<
       Ohlc(12, 12, 12, 12), Ohlc(12, 13, 12, 12), Ohlc(12, 17, 12, 16),
       Ohlc(17, 17, 12, 12), Ohlc(11, 15, 11, 15), Ohlc(15, 18, 13, 16),
       Ohlc(16, 16, 14, 15), Ohlc(15, 15, 13, 15), Ohlc(15, 20, 15, 19),
       Ohlc(19, 19, 11, 13), Ohlc(13, 15, 13, 13), Ohlc(13, 19, 13, 18),
       Ohlc(18, 18, 17, 18), Ohlc(18, 19, 16, 19), Ohlc(19, 19, 13, 14),
       Ohlc(14, 16, 14, 16), Ohlc(16, 16, 14, 14), Ohlc(15, 18, 15, 17),
       Ohlc(16, 18, 11, 12), Ohlc(12, 14, 10, 14), Ohlc(14, 15, 12, 12),
       Ohlc(11, 13, 11, 11), Ohlc(12, 12, 10, 10), Ohlc(10, 16, 10, 15),
       Ohlc(15, 15, 13, 13), Ohlc(13, 14, 9, 9) >>
  >>

AbFrames ==
    { FrameOf(BaseSeries[k], n) : k \in DOMAIN BaseSeries, n \in AbMinBars..AbMaxBars }

AbInit ==
    /\ PipeIdle
    /\ SimIdle
    /\ \E frame \in AbFrames :
          ab = [frame |-> frame, self |-> AlBrooksV2Strategy, d |-> Unset,
                idx |-> 0, running |-> FALSE, runs |-> 0, returned |-> <<>>]

\* run_backtest is called: reset_state, prepare_data, and the loop begins
AbCall ==
    /\ ~ab.running
    /\ ab.runs < MaxRuns
    /\ ab' = [ab EXCEPT !.self = reset_state(@), !.d = prepare_data(ab.frame),
                        !.idx = 0, !.running = TRUE, !.runs = @ + 1]
    /\ UNCHANGED <<pipeVars, simVars>>

InLoop == ab.running /\ ab.idx < FrameLen(ab.frame)

\* an iteration that `continue`s at the session or ATR test
AbSkipBar ==
    /\ InLoop
    /\ SkipsBar(ab.d, ab.idx)
    /\ ab' = [ab EXCEPT !.idx = @ + 1]
    /\ UNCHANGED <<pipeVars, simVars>>

\* an iteration that finds the strategy in a position
AbManagePosition ==
    /\ InLoop
    /\ ~SkipsBar(ab.d, ab.idx)
    /\ LET begun == BeginBar(ab.self, ab.d, ab.idx)
       IN  /\ begun.in_position
           /\ ab' = [ab EXCEPT !.self = manage_position(begun, ab.d, ab.idx),
                               !.idx = @ + 1]
    /\ UNCHANGED <<pipeVars, simVars>>

\* an iteration that finds the strategy flat with a circuit breaker open
AbCircuitBreaker ==
    /\ InLoop
    /\ ~SkipsBar(ab.d, ab.idx)
    /\ LET begun == BeginBar(ab.self, ab.d, ab.idx)
       IN  /\ ~begun.in_position
           /\ CircuitBroken(begun)
           /\ ab' = [ab EXCEPT !.self = begun, !.idx = @ + 1]
    /\ UNCHANGED <<pipeVars, simVars>>

\* an iteration that finds the strategy flat and looks for an entry
AbCheckEntry ==
    /\ InLoop
    /\ ~SkipsBar(ab.d, ab.idx)
    /\ LET begun == BeginBar(ab.self, ab.d, ab.idx)
       IN  /\ ~begun.in_position
           /\ ~CircuitBroken(begun)
           /\ ab' = [ab EXCEPT !.self = check_entry_signals(begun, ab.d, ab.idx),
                               !.idx = @ + 1]
    /\ UNCHANGED <<pipeVars, simVars>>

\* the loop is over: the trades go back to the caller as a DataFrame
AbReturn ==
    /\ ab.running
    /\ ab.idx = FrameLen(ab.frame)
    /\ ab' = [ab EXCEPT !.running = FALSE, !.d = Unset,
                        !.returned = Append(@, ab.self.trades)]
    /\ UNCHANGED <<pipeVars, simVars>>

AbNext ==
    \/ AbCall
    \/ AbSkipBar
    \/ AbManagePosition
    \/ AbCircuitBreaker
    \/ AbCheckEntry
    \/ AbReturn

SpecAlBrooks == AbInit /\ [][AbNext]_vars

\* C5: determinism of AlBrooksV2Strategy.run_backtest. Every call made on
\* the one strategy object with the same bars returns the same trade list
\* as the first call, whatever the earlier calls left in the object.
C5_Determinism ==
    \A i \in 1..Len(ab.returned) : ab.returned[i] = ab.returned[1]

\* a second call has returned trades, and it had started from an object
\* that the first call left (as this one leaves it) in a position, with
\* losses counted, a session date, pattern states and key levels
C5_Witness ==
    /\ ~ab.running
    /\ Len(ab.returned) = 2
    /\ ab.returned[2] # <<>>
    /\ ab.self.trades = ab.returned[2]
    /\ ab.self.in_position
    /\ ab.self.consecutive_losses > 0
    /\ ab.self.daily_pnl # 0
    /\ ab.self.last_rth_date # None
    /\ ab.self.h2_state # SecondEntryState
    /\ ab.self.key_levels # <<>>

LastTrade == trades[Len(trades)]

\* a risk limit is reached: daily loss at or below the limit, or the run
\* of consecutive losses at its maximum
RiskLimitHit(s) ==
    \/ s.daily_pnl <= SimParams.max_daily_loss
    \/ s.consec_losses >= SimParams.max_consec_losses

\* C3: once a close has brought daily_pnl to max_daily_loss or below, or
\* consec_losses to max_consec_losses, no order is pending and no position
\* is open at that moment, and every later bar of the same date leaves the
\* loop flat, without an order, without a new trade and still latched; a
\* bar with a different date resets both counters to 0.
C3_BreakerLatch ==
    [][ RiskLimitHit(bt) =>
          /\ ~bt.in_position /\ ~bt.has_pending
          /\ IF bt'.current_date = bt.current_date
             THEN /\ RiskLimitHit(bt')
                  /\ ~bt'.in_position /\ ~bt'.has_pending
                  /\ trades' = trades
             ELSE bt'.daily_pnl = 0 /\ bt'.consec_losses = 0 ]_vars

\* two losing trades on one day have latched the breaker, a later bar of
\* that day has gone by, and a valid in-session signal on the next bar of
\* the same day is turned away
C3_Witness ==
    /\ variant.fn = "backtest"
    /\ Len(trades) = 2
    /\ bt.consec_losses >= SimParams.max_consec_losses
    /\ bt.daily_pnl > SimParams.max_daily_loss
    /\ LastTrade.date = bt.current_date
    /\ bt.i > LastTrade.exit_bar
    /\ \E inp \in BarInputs(variant, bt) :
          /\ inp.date = bt.current_date
          /\ inp.in_rth
          /\ SignalValid(bt, variant, inp.signal)
          /\ BarStep(bt, trades, variant, inp).path = "idle"
          /\ ~BarStep(bt, trades, variant, inp).bt.has_pending

\* C9 as claimed: every close adds the trade's P&L to daily_pnl, and sets
\* consec_losses to one more than before when the P&L is negative and to 0
\* when it is zero or positive (both counters taken after the date reset
\* of the bar).
C9_RiskCountersOnEveryClose ==
    [][ Len(trades') > Len(trades) =>
          LET t == trades'[Len(trades')]
              same_day == bt'.current_date = bt.current_date
              pnl0 == IF same_day THEN bt.daily_pnl ELSE 0
              losses0 == IF same_day THEN bt.consec_losses ELSE 0
          IN  /\ bt'.daily_pnl = pnl0 + t.pnl
              /\ bt'.consec_losses = IF t.pnl < 0 THEN losses0 + 1 ELSE 0 ]_vars

StopTouched(t, bar) ==
    IF t.direction = "LONG" THEN bar.low <= t.stop ELSE bar.high >= t.stop

TargetTouched(t, bar) ==
    IF t.direction = "LONG" THEN bar.high >= t.target ELSE bar.low <= t.target

\* C10: the trade closed on the bar just processed has reason STOP at the
\* stop price whenever the bar touches the stop (the target being touched
\* or not), TARGET at the target price only when the stop is not touched,
\* TIME at the close only when neither is touched and bars_held >=
\* max_hold; every position has one trade record with one of these reasons.
C10_ExitPriority ==
    /\ \A j, k \in 1..Len(trades) : j # k => trades[j].entry_bar # trades[k].entry_bar
    /\ (trades # <<>> /\ LastTrade.exit_bar = bt.i) =>
          LET t == LastTrade
              bar == bt.bar
          IN  /\ t.exit_reason \in {"STOP", "TARGET", "TIME"}
              /\ StopTouched(t, bar) => t.exit_reason = "STOP"
              /\ t.exit_reason = "STOP" => StopTouched(t, bar) /\ t.exit_price = t.stop
              /\ t.exit_reason = "TARGET" =>
                    /\ ~StopTouched(t, bar) /\ TargetTouched(t, bar)
                    /\ t.exit_price = t.target
              /\ t.exit_reason = "TIME" =>
                    /\ ~StopTouched(t, bar) /\ ~TargetTouched(t, bar)
                    /\ t.bars_held >= SimParams.max_hold
                    /\ t.exit_price = bar.close

\* a position held over from an earlier bar closes on a bar that touches
\* both its stop and its target, and the record says STOP
C10_Witness ==
    /\ variant.fn = "backtest"
    /\ trades # <<>>
    /\ LastTrade.exit_bar = bt.i
    /\ LastTrade.bars_held > 0
    /\ StopTouched(LastTrade, bt.bar)
    /\ TargetTouched(LastTrade, bt.bar)
    /\ LastTrade.exit_reason = "STOP"

\* the iteration that led to the current state placed the pending order
PlacedThisBar(s, v) ==
    /\ s.has_pending
    /\ IF OrderType(v) = "market" THEN s.pending_signal_bar = s.i - 1
                                  ELSE s.pending_placed_bar = s.i

\* C2: at the end of every bar a pending order and an open position never
\* coexist; an order is placed only by an iteration that started flat, the
\* iteration that fills an order clears it, and an iteration that starts
\* with a position open never leaves an order behind, whatever the signal
\* arrays hold, so a signal during a position is dropped.
C2_SinglePosition ==
    [][ /\ ~(bt'.in_position /\ bt'.has_pending)
        /\ PlacedThisBar(bt', variant) => ~bt.in_position
        /\ (bt'.in_position /\ bt'.entry_bar = bt'.i) => bt.has_pending /\ ~bt.in_position
        /\ bt.in_position => ~bt'.has_pending ]_vars

\* backtest_v2 holds a position that has survived a bar, and a valid
\* in-session signal on the next bar leaves the position open and no order
C2_Witness ==
    /\ variant.fn = "backtest_v2"
    /\ bt.in_position /\ ~bt.has_pending
    /\ bt.i > bt.entry_bar
    /\ \E inp \in BarInputs(variant, bt) :
          /\ inp.in_rth
          /\ inp.signal.sig # 0 /\ ~IsNaN(inp.signal.entry) /\ ~IsNaN(inp.signal.stop)
          /\ BarStep(bt, trades, variant, inp).bt.in_position
          /\ ~BarStep(bt, trades, variant, inp).bt.has_pending

\* C4: while a position stays open its stop never moves against it from
\* one bar to the next (long: never lower, short: never higher), and the
\* final_stop of the trade record is on the same side of the stop of the
\* bar before and of the initial stop.
C4_StopMonotonic ==
    [][ bt.in_position =>
          /\ (bt'.in_position /\ bt.pos_type = 1) => bt'.stop_price >= bt.stop_price
          /\ (bt'.in_position /\ bt.pos_type # 1) => bt'.stop_price <= bt.stop_price
          /\ Len(trades') > Len(trades) =>
                LET t == trades'[Len(trades')]
                IN  IF t.direction = "LONG"
                    THEN t.final_stop >= bt.stop_price /\ t.final_stop >= t.stop
                    ELSE t.final_stop <= bt.stop_price /\ t.final_stop <= t.stop ]_vars

\* a long position of backtest_trailing whose stop has been raised above
\* the initial stop meets a confirmed swing low that would put the stop
\* lower, and the stop stays where it is until the trade is recorded
C4_Witness ==
    /\ variant.fn = "backtest_trailing"
    /\ bt.in_position /\ bt.pos_type = 1
    /\ bt.stop_price > bt.initial_stop
    /\ \E inp \in BarInputs(variant, bt) :
          LET a_now == IF ~IsNaN(inp.trail.atr) THEN inp.trail.atr ELSE bt.atr_prev
              out == BarStep(bt, trades, variant, inp)
          IN  /\ ~IsNaN(inp.trail.sl_price) /\ ~IsNaN(a_now)
              /\ inp.trail.sl_price - SimParams.trail_buffer_atr * a_now < bt.stop_price
              /\ out.path = "exit"
              /\ out.trades[Len(out.trades)].final_stop = bt.stop_price
              /\ out.trades[Len(out.trades)].exit_reason = "TRAIL_STOP"

\* C11 as claimed: in backtest and backtest_trailing a position is entered
\* on the bar after its signal bar, at that bar's open plus slippage for a
\* long and minus slippage for a short, so every trade record has
\* entry_bar = signal_bar + 1.
C11_MarketEntryTiming ==
    variant.fn \in {"backtest", "backtest_trailing"} =>
        /\ \A k \in 1..Len(trades) : trades[k].entry_bar = trades[k].signal_bar + 1
        /\ bt.in_position =>
              /\ bt.entry_bar = bt.trade_signal_bar + 1
              /\ bt.entry_bar = bt.i =>
                    bt.entry_price = bt.bar.open + bt.pos_type * SimParams.slippage

\* the step fills the pending order on the bar it takes
FillsOnThisBar ==
    /\ bt.has_pending /\ ~bt.in_position
    /\ bt'.i = bt.i + 1
    /\ bt'.entry_bar = bt'.i
    /\ bt'.trade_signal_bar = bt.pending_signal_bar
    /\ Len(trades') > Len(trades) \/ bt'.in_position

ReachesPendingPrice(s, v, bar) ==
    IF (OrderType(v) = "limit") = (s.pending_dir = 1)
    THEN bar.low <= s.pending_price
    ELSE bar.high >= s.pending_price

\* C13: in backtest_grid_limit and backtest_v2 an order placed at bar k with
\* order_timeout T is not filled on bar k; it fills only on a bar of
\* k+1..k+T whose low/high reaches its price; through bar k+T it stays
\* pending unless it fills; and at bar k+T+1, not filled and not replaced,
\* it is dropped without a trade.
C13_PendingOrderExpiry ==
    [][ variant.fn \in {"backtest_grid_limit", "backtest_v2"} =>
          LET T == SimParams.order_timeout
              k == bt.pending_placed_bar
              placed == bt'.has_pending /\ bt'.pending_placed_bar = bt'.i
          IN  /\ placed => ~bt'.in_position /\ trades' = trades
              /\ FillsOnThisBar =>
                    /\ bt'.i \in (k + 1)..(k + T)
                    /\ ReachesPendingPrice(bt, variant, bt'.bar)
              /\ (bt.has_pending /\ bt'.i <= k + T) =>
                    FillsOnThisBar \/ bt'.has_pending
              /\ (bt.has_pending /\ bt'.i = k + T + 1) =>
                    /\ ~bt'.in_position /\ trades' = trades
                    /\ bt'.has_pending => bt'.pending_placed_bar = bt'.i
              /\ bt'.has_pending => bt'.i - bt'.pending_placed_bar <= T ]_vars

\* a limit order of backtest_grid_limit went unfilled and unreplaced
\* through its whole life and was dropped at bar k + T + 1 with no trade
C13_Witness ==
    /\ variant.fn = "backtest_grid_limit"
    /\ bt.pending_placed_bar >= 1
    /\ bt.i = bt.pending_placed_bar + SimParams.order_timeout + 1
    /\ ~bt.has_pending /\ ~bt.in_position
    /\ trades = <<>>

----------------------------------------------------------------------------
(* Claims about the pullback counters *)

\* the iteration the step has just run confirmed a swing high / swing low
NewSwingHigh == ~IsNaN(data'.input.sh_price)
NewSwingLow == ~IsNaN(data'.input.sl_price)

\* Swing lows counted since the latest reset of the long counter, before
\* the low of this iteration: none when the iteration itself resets (a
\* swing high confirmed in an uptrend is a higher high), else what the
\* counter held; -1 once the second entry was emitted.  Mirrored below.
LongCountedBefore ==
    IF NewSwingHigh THEN 0 ELSE signals.st.long_pullback_count
ShortCountedBefore ==
    IF NewSwingLow THEN 0 ELSE signals.st.short_pullback_count

\* C14: between two resets of the long counter, the bar that confirms the
\* first swing low emits a long signal of entry_type 1 exactly when
\* track_first_entries is on, the bar that confirms the second swing low
\* emits a long signal of entry_type 2 whatever track_first_entries is,
\* and no other bar emits a long signal; the short side mirrors this with
\* swing highs in a downtrend.
C14_PullbackCounterEmission ==
    [][LET out == signals'.st
           long_low == out.current_trend = TREND_UP /\ NewSwingLow
           short_high == out.current_trend = TREND_DOWN /\ NewSwingHigh
       IN  /\ long_low /\ LongCountedBefore = 0 =>
                 /\ out.long_pullback_count = 1
                 /\ IF params.track_first_entries
                    THEN out.signal = 1 /\ out.entry_type = 1
                    ELSE out.signal = 0 /\ out.entry_type = 0
           /\ long_low /\ LongCountedBefore = 1 =>
                 /\ out.signal = 1 /\ out.entry_type = 2
                 /\ out.long_pullback_count = -1
           /\ out.signal = 1 => long_low /\ LongCountedBefore \in {0, 1}
           /\ short_high /\ ShortCountedBefore = 0 =>
                 /\ out.short_pullback_count = 1
                 /\ IF params.track_first_entries
                    THEN out.signal = -1 /\ out.entry_type = 1
                    ELSE out.signal = 0 /\ out.entry_type = 0
           /\ short_high /\ ShortCountedBefore = 1 =>
                 /\ out.signal = -1 /\ out.entry_type = 2
                 /\ out.short_pullback_count = -1
           /\ out.signal = -1 => short_high /\ ShortCountedBefore \in {0, 1}
      ]_vars

\* a second swing low emitted a second entry with first entries switched off
C14_Witness ==
    /\ ~params.track_first_entries
    /\ signals.st.signal = 1
    /\ signals.st.entry_type = 2
    /\ signals.st.long_pullback_count = -1

\* C15: the long counter runs while the trend is UP or RANGE: an iteration
\* whose trend is RANGE counts a confirmed swing low, and otherwise leaves
\* the count as it was (a change from UP to RANGE does not reset it); the
\* short counter does the same with swing highs.
C15_CounterEligibility ==
    [][LET out == signals'.st
       IN  out.current_trend = TREND_RANGE =>
              /\ out.long_pullback_count =
                    IF NewSwingLow /\ signals.st.long_pullback_count >= 0
                    THEN IF signals.st.long_pullback_count = 1 THEN -1
                         ELSE signals.st.long_pullback_count + 1
                    ELSE signals.st.long_pullback_count
              /\ out.short_pullback_count =
                    IF NewSwingHigh /\ signals.st.short_pullback_count >= 0
                    THEN IF signals.st.short_pullback_count = 1 THEN -1
                         ELSE signals.st.short_pullback_count + 1
                    ELSE signals.st.short_pullback_count
      ]_vars

\* C16: on the clean uptrend every completed pullback cycle emits one
\* second-entry long signal: once the trend is UP, the iteration that
\* confirms the higher low after a higher high takes the long counter to
\* 2 (consumed, -1) and writes signal 1 with entry_type 2.
C16_CleanUptrendSecondEntry ==
    [][LET out == signals'.st
       IN  /\ signals.st.current_trend = TREND_UP
           /\ out.current_trend = TREND_UP
           /\ NewSwingLow
           => /\ out.signal = 1
              /\ out.entry_type = 2
              /\ out.long_pullback_count = -1
      ]_vars

\* C17: in backtest_trailing with use_breakeven on, the bar whose confirmed
\* swing low is the first one above the entry price of a long moves the
\* stop to exactly the entry price, not higher, and on no later bar of
\* the trade is the stop below the entry price.
C17_BreakevenExactlyEntry ==
    [][/\ variant.fn = "backtest_trailing"
       /\ variant.use_breakeven
       /\ bt.in_position /\ bt.pos_type = 1
       /\ bt'.entry_bar = bt.entry_bar
       => /\ ~bt.be_moved /\ bt'.be_moved => bt'.stop_price = bt.entry_price
          /\ bt.be_moved => bt'.be_moved /\ bt'.stop_price >= bt.entry_price
      ]_vars

----------------------------------------------------------------------------
(* Claims about the signal checks of backtest *)

\* sig[prev] is set but atr[prev] is undefined or zero, or a level is NaN
InvalidSignal(sg) ==
    /\ sg.sig # 0
    /\ IsNaN(sg.atr) \/ sg.atr = 0 \/ IsNaN(sg.stop) \/ IsNaN(sg.target)

\* sig[prev] is set with a usable ATR and both levels
UsableSignal(sg) ==
    /\ sg.sig # 0
    /\ ~IsNaN(sg.atr) /\ sg.atr # 0
    /\ ~IsNaN(sg.stop) /\ ~IsNaN(sg.target)

\* C18: an iteration of backtest that reads a signal with undefined or
\* zero ATR, or with a NaN stop or target, queues no order and books no
\* trade; it leaves the loop as an iteration without a signal would
\* (position and risk state untouched), and the next iteration still
\* queues an order for a usable signal.
C18_InvalidSignalSkipped ==
    variant.fn = "backtest" =>
        \A inp \in BarInputs(variant, bt) :
            InvalidSignal(inp.signal) /\ ReadsSignal(bt, variant) =>
                LET out == BarStep(bt, trades, variant, inp)
                    quiet == BarStep(bt, trades, variant,
                                     [inp EXCEPT !.signal = NoSignal])
                IN  /\ ~out.bt.has_pending
                    /\ ~out.bt.in_position
                    /\ out.trades = trades
                    /\ out.bt = quiet.bt
                    /\ inp.date = bt.current_date =>
                          /\ out.bt.daily_pnl = bt.daily_pnl
                          /\ out.bt.consec_losses = bt.consec_losses
                    /\ \A nxt \in BarInputs(variant, out.bt) :
                          /\ UsableSignal(nxt.signal)
                          /\ nxt.in_rth
                          /\ ~BreakerTripped(DayReset(out.bt, nxt.date))
                          => LET after == BarStep(out.bt, out.trades, variant, nxt).bt
                             IN  /\ after.has_pending
                                 /\ after.pending_dir = nxt.signal.sig
                                 /\ after.pending_stop = nxt.signal.stop

\* backtest is about to read an invalid signal in session, past the
\* breakers, with a loss already counted
C18_Witness ==
    /\ variant.fn = "backtest"
    /\ ReadsSignal(bt, variant)
    /\ Len(trades) > 0
    /\ bt.consec_losses > 0
    /\ \E inp \in BarInputs(variant, bt) :
          /\ InvalidSignal(inp.signal)
          /\ inp.in_rth
          /\ inp.date = bt.current_date
          /\ ~BreakerTripped(bt)

\* C19: backtest never opens a position whose stop is on the wrong side
\* of the entry: at every fill a long has stop_price < entry_price and a
\* short has stop_price > entry_price, in the open position and in every
\* trade record.
C19_StopOnRightSide ==
    variant.fn = "backtest" =>
        /\ bt.in_position =>
              IF bt.pos_type = 1 THEN bt.stop_price < bt.entry_price
                                 ELSE bt.stop_price > bt.entry_price
        /\ \A k \in 1..Len(trades) :
              IF trades[k].direction = "LONG"
              THEN trades[k].stop < trades[k].entry_price
              ELSE trades[k].stop > trades[k].entry_price

----------------------------------------------------------------------------
(* Construction of AlBrooksV2Strategy from a caller's configuration *)

\* the defaults of __init__ for the keys whose range matters below
\* (reward_risk_ratio 1.5 in halves)
ConfigDefaults ==
    [atr_period |-> 14, sr_swing_strength |-> 2, reward_risk_ratio_x2 |-> 3]

\* the `params` argument: None (Unset) or a dict that sets the three keys
ConfigArguments ==
    {Unset} \cup [atr_period : {-1, 0, 1, 14},
                  sr_swing_strength : {-1, 0, 1, 2},
                  reward_risk_ratio_x2 : {-2, 0, 2, 3}]

\* self.params after `if params: self.params.update(params)`
UpdatedParams(arg) == IF arg = Unset THEN ConfigDefaults ELSE arg

ConfigInit ==
    /\ df = <<>>
    /\ params \in ConfigArguments
    /\ data = Unset
    /\ signals = Unset
    /\ SimIdle
    /\ AbIdle

\* AlBrooksV2Strategy(params): the defaults, the update, reset_state()
AbConstruct ==
    /\ ab = Unset
    /\ ab' = [params |-> UpdatedParams(params), self |-> reset_state(Unset)]
    /\ UNCHANGED <<df, params, data, signals, simVars>>

SpecConfig == ConfigInit /\ [][AbConstruct]_vars

\* C20: a configuration with atr_period <= 0, a swing strength <= 0 or
\* reward_risk_ratio <= 0 fails fast: no AlBrooksV2Strategy object is
\* ever constructed from it.
C20_InvalidConfigFailsFast ==
    ab # Unset =>
        /\ ab.params.atr_period > 0
        /\ ab.params.sr_swing_strength > 0
        /\ ab.params.reward_risk_ratio_x2 > 0

----------------------------------------------------------------------------
(* FRRStrategy.backtest (frr_strategy.py): the bar loop over the signal    *)
(* frame.  `bt` holds the strategy object's position and risk attributes,  *)
(* the loop index and the row the iteration read; `trades` is self.trades. *)

\* last index the loop may reach
FrrMaxBar == 4

\* slippage and commission arguments, max_hold_bars, daily_loss_limit and
\* max_consecutive_losses, model-sized
FrrParams ==
    [slippage |-> 1, commission |-> 1, max_hold_bars |-> 2,
     daily_loss_limit |-> -3, max_consecutive_losses |-> 2]

FrrVariant == [fn |-> "FRRStrategy.backtest"]

\* reset_state(), with current_date = None as 0 and the row of index 0
FrrInit ==
    /\ PipeIdle
    /\ AbIdle
    /\ variant = FrrVariant
    /\ trades = <<>>
    /\ bt = [i |-> 0, done |-> FALSE,
             in_position |-> FALSE, position_type |-> "NONE",
             entry_bar |-> None, entry_price |-> None,
             daily_pnl |-> 0, consecutive_losses |-> 0, current_date |-> 0,
             row |-> [open |-> 10, close |-> 10, ema |-> 10, stop_level |-> NaN,
                      is_R1 |-> TRUE, long_entry |-> FALSE, short_entry |-> FALSE]]

\* the circuit breaker check at the top of the iteration
FrrBreakerOff(s) == FALSE

FrrBreaker(s) ==
    \/ s.daily_pnl <= FrrParams.daily_loss_limit
    \/ s.consecutive_losses >= FrrParams.max_consecutive_losses

\* current_bar (open, close, ema, is_R1, and last_swing_low - stop_atr_mult
\* * atr for a long, last_swing_high + stop_atr_mult * atr for a short, NaN
\* while a term is undefined) and the entry flags of prev_bar.  Columns
\* the iteration does not read are not varied.
FrrRows(s, date) ==
    LET tripped == IF date # s.current_date THEN FALSE ELSE FrrBreaker(s)
        flat == [open |-> 10, close |-> 10, ema |-> 10, stop_level |-> NaN,
                 is_R1 |-> TRUE, long_entry |-> FALSE, short_entry |-> FALSE]
    IN  IF tripped THEN {flat}
        ELSE IF s.in_position
        THEN [open : {10}, close : {10, 12, 16}, ema : {8, 10, 14},
              stop_level : IF s.position_type = "LONG" THEN {NaN, 9, 12}
                                                       ELSE {NaN, 12, 16},
              is_R1 : BOOLEAN, long_entry : {FALSE}, short_entry : {FALSE}]
        ELSE [open : {10, 12}, close : {10}, ema : {10}, stop_level : {NaN},
              is_R1 : {TRUE}, long_entry : BOOLEAN, short_entry : BOOLEAN]

\* _exit_trade
frr_exit_trade(s, trs, exit_bar, exit_price, exit_reason) ==
    IF ~s.in_position THEN [bt |-> s, trades |-> trs]
    ELSE
    LET long == s.position_type = "LONG"
        price == IF long THEN exit_price - FrrParams.slippage
                         ELSE exit_price + FrrParams.slippage
        pnl == (IF long THEN price - s.entry_price ELSE s.entry_price - price)
               - FrrParams.commission
    IN  [bt |-> [s EXCEPT !.daily_pnl = @ + pnl,
                          !.consecutive_losses = IF pnl < 0 THEN @ + 1 ELSE 0,
                          !.in_position = FALSE, !.position_type = "NONE",
                          !.entry_bar = None, !.entry_price = None],
         trades |-> Append(trs, [direction |-> s.position_type,
                                 entry_bar |-> s.entry_bar,
                                 entry_price |-> s.entry_price,
                                 exit_bar |-> exit_bar,
                                 exit_price |-> price,
                                 exit_reason |-> exit_reason,
                                 pnl |-> pnl,
                                 bars_held |-> exit_bar - s.entry_bar])]

\* _enter_trade
frr_enter_trade(s, direction, entry_bar, entry_price) ==
    [s EXCEPT !.in_position = TRUE, !.position_type = direction,
              !.entry_bar = entry_bar,
              !.entry_price = IF direction = "LONG"
                              THEN entry_price + FrrParams.slippage
                              ELSE entry_price - FrrParams.slippage]

NoFrrExit == [signal |-> "NONE", price |-> 0]

\* the "Exit logic" block: the if / elif chain (target, else stop), then
\* the time exit and the regime exit under `exit_signal is None`
FrrExitSignal(s, row) ==
    LET long == s.position_type = "LONG"
        bars_held == s.i - s.entry_bar
        first == IF long /\ row.close >= row.ema
                 THEN [signal |-> "TARGET", price |-> row.ema]
                 ELSE IF ~long /\ row.close <= row.ema
                 THEN [signal |-> "TARGET", price |-> row.ema]
                 ELSE IF long
                 THEN IF Le(row.close, row.stop_level)
                      THEN [signal |-> "STOP", price |-> row.stop_level]
                      ELSE NoFrrExit
                 ELSE IF Ge(row.close, row.stop_level)
                      THEN [signal |-> "STOP", price |-> row.stop_level]
                      ELSE NoFrrExit
        second == IF first.signal = "NONE" /\ bars_held >= FrrParams.max_hold_bars
                  THEN [signal |-> "TIME", price |-> row.close]
                  ELSE first
    IN  IF second.signal = "NONE" /\ ~row.is_R1
        THEN [signal |-> "REGIME", price |-> row.close]
        ELSE second

\* one iteration of the loop for i >= 1
FrrStep(s, trs, date, row) ==
    LET s0 == [s EXCEPT !.i = @ + 1, !.row = row]
        s1 == IF date # s0.current_date
              THEN [s0 EXCEPT !.current_date = date, !.daily_pnl = 0,
                              !.consecutive_losses = 0]
              ELSE s0
    IN  IF FrrBreaker(s1) THEN [path |-> "breaker", bt |-> s1, trades |-> trs]
        ELSE IF s1.in_position
        THEN LET ex == FrrExitSignal(s1, row)
             IN  IF ex.signal # "NONE"
                 THEN [path |-> "exit"] @@
                      frr_exit_trade(s1, trs, s1.i, ex.price, ex.signal)
                 ELSE [path |-> "hold", bt |-> s1, trades |-> trs]
        ELSE IF row.long_entry
        THEN [path |-> "enter",
              bt |-> frr_enter_trade(s1, "LONG", s1.i, row.open), trades |-> trs]
        ELSE IF row.short_entry
        THEN [path |-> "enter",
              bt |-> frr_enter_trade(s1, "SHORT", s1.i, row.open), trades |-> trs]
        ELSE [path |-> "idle", bt |-> s1, trades |-> trs]

FrrBar(paths) ==
    /\ variant = FrrVariant
    /\ ~bt.done
    /\ bt.i < FrrMaxBar
    /\ \E date \in {bt.current_date, bt.current_date + 1} \cap Dates :
       \E row \in FrrRows(bt, date) :
          LET out == FrrStep(bt, trades, date, row)
          IN  /\ out.path \in paths
              /\ bt' = out.bt
              /\ trades' = out.trades
    /\ UNCHANGED <<df, params, data, signals, variant, ab>>

FrrBreakerSkip == FrrBar({"breaker"})
FrrExit == FrrBar({"exit"})
FrrHold == FrrBar({"hold"})
FrrEnter == FrrBar({"enter"})
FrrIdle == FrrBar({"idle"})

\* the frame ends at index bt.i: "Close any open position at end"
FrrEnd ==
    /\ variant = FrrVariant
    /\ ~bt.done
    /\ bt.i >= 1
    /\ LET out == frr_exit_trade(bt, trades, bt.i, bt.row.close, "END")
       IN  /\ bt' = [out.bt EXCEPT !.done = TRUE]
           /\ trades' = out.trades
    /\ UNCHANGED <<df, params, data, signals, variant, ab>>

FrrNext ==
    \/ FrrBreakerSkip
    \/ FrrExit
    \/ FrrHold
    \/ FrrEnter
    \/ FrrIdle
    \/ FrrEnd

SpecFrr == FrrInit /\ [][FrrNext]_vars

----------------------------------------------------------------------------
(* Claims about the session filter of backtest *)

\* C21: backtest ignores a signal whose signal bar lies outside
\* [rth_start, rth_end): the iteration that queues an order for the signal
\* of bar s = i - 1 does so only when the time of bar s is in the session,
\* so no trade has a signal_bar outside the session.
C21_SignalBarInSession ==
    [][/\ variant.fn = "backtest"
       /\ bt'.has_pending
       /\ bt'.pending_signal_bar = bt.i
       /\ bt'.i = bt.i + 1
       /\ ~bt.has_pending
       => bt.in_rth
      ]_vars

----------------------------------------------------------------------------
(* Claims about FRRStrategy.backtest *)

\* C22: the breaker of FRRStrategy.backtest only gates entries.  Whenever
\* a position is open the breaker is not tripped (daily_pnl above
\* daily_loss_limit, consecutive_losses below max_consecutive_losses), so
\* the `continue` of the breaker check never skips the exit checks: an
\* iteration that starts and ends with the position open read a row on
\* which no exit condition holds, and every trade is closed by the exit
\* logic or at the end of the frame.
C22_BreakerOnlyGatesEntries ==
    /\ [](bt.in_position =>
              /\ bt.daily_pnl > FrrParams.daily_loss_limit
              /\ bt.consecutive_losses < FrrParams.max_consecutive_losses)
    /\ [][bt.in_position /\ bt'.in_position /\ bt'.i = bt.i + 1 =>
              LET row == bt'.row
                  long == bt.position_type = "LONG"
              IN  /\ IF long THEN row.close < row.ema ELSE row.close > row.ema
                  /\ IsNaN(row.stop_level) \/
                        (IF long THEN row.close > row.stop_level
                                 ELSE row.close < row.stop_level)
                  /\ bt'.i - bt.entry_bar < FrrParams.max_hold_bars
                  /\ row.is_R1
                  /\ trades' = trades
         ]_vars
    /\ [](\A k \in 1..Len(trades) :
              trades[k].exit_reason \in {"STOP", "TARGET", "TIME", "REGIME", "END"})

\* a position is open on a day that already has a loss counted
C22_Witness ==
    /\ variant = FrrVariant
    /\ bt.in_position
    /\ bt.consecutive_losses = 1
    /\ bt.daily_pnl < 0
    /\ Len(trades) = 1

\* C23: exit priority of FRRStrategy.backtest.  On a bar where the open
\* position meets its stop condition the trade closes with STOP, also when
\* the target condition holds as well; TARGET needs the target condition,
\* TIME is chosen only when neither stop nor target applies, REGIME only
\* when none of stop, target and time applies.
C23_FrrExitPriority ==
    [][bt.in_position /\ bt'.i = bt.i + 1 /\ Len(trades') = Len(trades) + 1 =>
          LET row == bt'.row
              t == trades'[Len(trades')]
              long == bt.position_type = "LONG"
              stop == ~IsNaN(row.stop_level) /\
                      (IF long THEN row.close <= row.stop_level
                               ELSE row.close >= row.stop_level)
              target == IF long THEN row.close >= row.ema ELSE row.close <= row.ema
              time == bt'.i - bt.entry_bar >= FrrParams.max_hold_bars
          IN  /\ stop => t.exit_reason = "STOP"
              /\ ~stop /\ target => t.exit_reason = "TARGET"
              /\ t.exit_reason = "TIME" => ~stop /\ ~target /\ time
              /\ t.exit_reason = "REGIME" => ~stop /\ ~target /\ ~time /\ ~row.is_R1
      ]_vars

----------------------------------------------------------------------------
(* FRRStrategy.generate_signals: the swing columns.  The regime, z-score *)
(* and EMA columns are rolling statistics of past bars and are left out; *)
(* the swing flags and the bar counts derived from them are computed as  *)
(* the code computes them.                                               *)

\* is_swing &= highs > highs.shift(k) and highs > highs.shift(-k) for k in
\* 1..strength (a comparison with a missing neighbour is False), the first
\* and last `strength` rows set False; the result is returned as it is.
\* sign = 1 for highs and -1 for lows.
frr_detect_swing(vals, strength, sign) ==
    LET n == Cardinality(DOMAIN vals)
    IN  [i \in 0..(n - 1) |->
            /\ \A k \in 1..strength :
                  /\ i - k >= 0 /\ sign * vals[i] > sign * vals[i - k]
                  /\ i + k <= n - 1 /\ sign * vals[i] > sign * vals[i + k]
            /\ i >= strength
            /\ i < n - strength]

frr_detect_swing_highs(frame, strength) ==
    frr_detect_swing(Column(frame, "high"), strength, 1)

frr_detect_swing_lows(frame, strength) ==
    frr_detect_swing(Column(frame, "low"), strength, -1)

\* cumcount within the groups of swing_series.cumsum(): the number of bars
\* since the last flagged bar, the bar's own index before the first flag
bars_since_swing(swing_series) ==
    [i \in DOMAIN swing_series |->
        LET flagged == { j \in 0..i : swing_series[j] }
        IN  IF flagged = {} THEN i
            ELSE i - (CHOOSE j \in flagged : \A q \in flagged : q <= j)]

frr_generate_signals(frame, p) ==
    LET swing_high == frr_detect_swing_highs(frame, p.swing_strength)
        swing_low == frr_detect_swing_lows(frame, p.swing_strength)
    IN  [swing_high |-> swing_high,
         swing_low |-> swing_low,
         bars_since_swing_high |-> bars_since_swing(swing_high),
         bars_since_swing_low |-> bars_since_swing(swing_low)]

FrrSignalsInit ==
    /\ df \in Series
    /\ params \in [swing_strength : SwingStrengths]
    /\ data = Unset
    /\ signals = Unset
    /\ SimIdle
    /\ AbIdle

FrrGenerateSignals ==
    /\ signals = Unset
    /\ signals' = frr_generate_signals(df, params)
    /\ UNCHANGED <<df, params, data, simVars, abVars>>

SpecFrrSignals == FrrSignalsInit /\ [][FrrGenerateSignals]_vars

\* C24: FRRStrategy has no look-ahead.  The swing_high and swing_low flags
\* of generate_signals at bar i, and the bar counts derived from them, are
\* the ones the same call produces on the series cut after any bar m > i,
\* and a flag at bar i marks the extremum of bar i - swing_strength, never
\* bar i itself.
C24_FrrNoLookAhead ==
    signals # Unset =>
        LET n == Cardinality(DOMAIN df)
            s == params.swing_strength
        IN  /\ \A m \in 1..n : \A i \in 0..(m - 1) :
                  LET cut == frr_generate_signals(Truncated(df, m), params)
                  IN  /\ cut.swing_high[i] = signals.swing_high[i]
                      /\ cut.swing_low[i] = signals.swing_low[i]
                      /\ cut.bars_since_swing_high[i] = signals.bars_since_swing_high[i]
                      /\ cut.bars_since_swing_low[i] = signals.bars_since_swing_low[i]
            /\ \A i \in 0..(n - 1) :
                  /\ signals.swing_high[i] =>
                        i >= 2 * s /\ \A k \in 1..s :
                            /\ df[i - s].high > df[i - s - k].high
                            /\ df[i - s].high > df[i - s + k].high
                  /\ signals.swing_low[i] =>
                        i >= 2 * s /\ \A k \in 1..s :
                            /\ df[i - s].low < df[i - s - k].low
                            /\ df[i - s].low < df[i - s + k].low

----------------------------------------------------------------------------
(* mitch_v2_strategy.detect_signals_v2, one loop iteration at a time.    *)
(* Prices are in ticks (MNQ_TICK = 1).  df is the frame up to the loop   *)
(* index; the swing arrays of precompute_indicators at that index are    *)
(* computed from it by detect_swings and compute_swing_prices, which     *)
(* read no later bar.  signals holds the loop's variables and the        *)
(* entries of the output arrays written by the last iteration.           *)

V2MaxBar == 5

MNQ_TICK == 1

\* ratios are kept as tenths (sr_*, *_stop_atr) and hundredths
\* (signal_bar_*); the S/R bookkeeping limits are small enough to act
V2Params ==
    [swing_strength |-> 1,
     sr_tolerance_atr |-> 10,
     sr_max_levels |-> 3,
     sr_cluster_atr |-> 5,
     sr_max_age |-> 2,
     signal_bar_close_pct |-> 40,
     signal_bar_body_pct |-> 15,
     signal_bar_min_atr |-> 15,
     signal_bar_max_atr |-> 300,
     min_stop_atr |-> 3,
     max_stop_atr |-> 20,
     min_touches_pullback |-> 2,
     min_touches_triple |-> 3,
     failure_lookback |-> 3]

\* the ATR once the warm-up of atr_period bars is over
V2Atr == 10

\* a bullish bar on 100, a bullish bar on 130, a doji between the levels
\* and a bearish bar under 160
V2Bars ==
    { [open |-> 101, high |-> 108, low |-> 100, close |-> 107],
      [open |-> 131, high |-> 138, low |-> 130, close |-> 137],
      [open |-> 145, high |-> 147, low |-> 143, close |-> 145],
      [open |-> 159, high |-> 160, low |-> 152, close |-> 153] }

SRZone(price, bar_idx, zone_type) ==
    [price |-> price, zone_type |-> zone_type,
     touches |-> << <<bar_idx, price>> >>, last_bar |-> bar_idx]

RECURSIVE SumTouchPrices(_)
SumTouchPrices(touches) ==
    IF touches = <<>> THEN 0
    ELSE touches[1][2] + SumTouchPrices(Tail(touches))

\* np.mean of the touch prices; the swing prices of V2Bars that fall
\* within the cluster tolerance of each other are equal, so the mean is
\* a whole number of ticks
add_touch(z, bar_idx, price) ==
    LET touches == Append(z.touches, <<bar_idx, price>>)
    IN  [z EXCEPT !.touches = touches,
                  !.price = SumTouchPrices(touches) \div Len(touches),
                  !.last_bar = bar_idx]

touch_count(z) == Len(z.touches)

\* zones.sort(key=lambda z: z.last_bar): stable
SortByLastBar(zones) ==
    LET Rank(k) == Cardinality({ j \in 1..Len(zones) :
                        \/ zones[j].last_bar < zones[k].last_bar
                        \/ zones[j].last_bar = zones[k].last_bar /\ j < k }) + 1
    IN  [r \in 1..Len(zones) |-> zones[CHOOSE k \in 1..Len(zones) : Rank(k) = r]]

update_sr_zones(zones, new_price, bar_idx, zone_type, cluster_tol, max_age, max_levels) ==
    LET hits == { k \in 1..Len(zones) :
                    /\ zones[k].zone_type = zone_type
                    /\ Abs(zones[k].price - new_price) <= cluster_tol }
    IN  IF hits # {}
        THEN LET k == CHOOSE h \in hits : \A q \in hits : h <= q
             IN  [zones EXCEPT ![k] = add_touch(zones[k], bar_idx, new_price)]
        ELSE LET created == Append(zones, SRZone(new_price, bar_idx, zone_type))
                 Fresh(z) == bar_idx - z.last_bar <= max_age
                 kept == SelectSeq(created, Fresh)
             IN  IF Len(kept) > max_levels
                 THEN SubSeq(SortByLastBar(kept), Len(kept) - max_levels + 1, Len(kept))
                 ELSE kept

NoZone == [price |-> NaN]

\* the closest zone of the type within the tolerance, the first of them
\* in list order on equal distances
find_nearby_zone(zones, price, tolerance, zone_type) ==
    LET near == { k \in 1..Len(zones) :
                    /\ zones[k].zone_type = zone_type
                    /\ Abs(zones[k].price - price) <= tolerance }
    IN  IF near = {} THEN NoZone
        ELSE zones[CHOOSE k \in near : \A q \in near :
                      \/ Abs(zones[k].price - price) < Abs(zones[q].price - price)
                      \/ Abs(zones[k].price - price) = Abs(zones[q].price - price) /\ k <= q]

check_signal_bar(open_p, high, low, close, atr, direction, p) ==
    LET bar_range == high - low
        body == Abs(close - open_p)
    IN  /\ bar_range > 0
        /\ ~IsNaN(atr) /\ atr > 0
        /\ 100 * bar_range >= p.signal_bar_min_atr * atr
        /\ 100 * bar_range <= p.signal_bar_max_atr * atr
        /\ 100 * body >= p.signal_bar_body_pct * bar_range
        /\ IF direction = 1
           THEN /\ close > open_p
                /\ 100 * (close - low) >= (100 - p.signal_bar_close_pct) * bar_range
           ELSE /\ close < open_p
                /\ 100 * (high - close) >= (100 - p.signal_bar_close_pct) * bar_range

\* a break counts when the zone it broke is the zone being tested
SameZoneBreaksOnly(bar_idx, zone, recent_breaks, p) ==
    IF touch_count(zone) >= p.min_touches_triple THEN "TRIPLE_TEST"
    ELSE IF touch_count(zone) >= p.min_touches_pullback THEN "PULLBACK"
    ELSE IF \E k \in 1..Len(recent_breaks) :
               /\ bar_idx - recent_breaks[k][1] <= p.failure_lookback
               /\ recent_breaks[k][2] = zone.price
         THEN "FAILURE"
    ELSE "NONE"

\* detect_pattern_at_support and detect_pattern_at_resistance have the
\* same body; recent_breaks is the break list of the zone's side
detect_pattern_at_zone(bar_idx, zone, recent_breaks, p) ==
    IF touch_count(zone) >= p.min_touches_triple THEN "TRIPLE_TEST"
    ELSE IF touch_count(zone) >= p.min_touches_pullback THEN "PULLBACK"
    ELSE IF \E k \in 1..Len(recent_breaks) :
               bar_idx - recent_breaks[k][1] <= p.failure_lookback
         THEN "FAILURE"
    ELSE "NONE"

NoV2Signal ==
    [signal |-> 0, signal_type |-> "", entry_price |-> NaN, stop_price |-> NaN,
     zone |-> NoZone]

\* one side of the signal check: direction 1 tests the bar's low against
\* the supports, direction -1 its high against the resistances
V2Side(s, bar, i, a, p, direction) ==
    LET sr_tol == (p.sr_tolerance_atr * a) \div 10
        zone == IF direction = 1
                THEN find_nearby_zone(s.sr_zones, bar.low, sr_tol, "support")
                ELSE find_nearby_zone(s.sr_zones, bar.high, sr_tol, "resistance")
        breaks == IF direction = 1 THEN s.recent_support_breaks
                  ELSE s.recent_resist_breaks
        pattern == detect_pattern_at_zone(i, zone, breaks, p)
        entry_p == IF direction = 1 THEN bar.high + MNQ_TICK ELSE bar.low - MNQ_TICK
        stop_0 == IF direction = 1 THEN bar.low - MNQ_TICK ELSE bar.high + MNQ_TICK
        stop_dist == direction * (entry_p - stop_0)
        stop_p == IF 10 * stop_dist < p.min_stop_atr * a
                  THEN entry_p - direction * ((p.min_stop_atr * a) \div 10)
                  ELSE stop_0
    IN  IF /\ zone # NoZone
           /\ pattern # "NONE"
           /\ check_signal_bar(bar.open, bar.high, bar.low, bar.close, a, direction, p)
           /\ 10 * stop_dist <= p.max_stop_atr * a
        THEN [signal |-> direction, signal_type |-> pattern, entry_price |-> entry_p,
              stop_price |-> stop_p, zone |-> zone]
        ELSE NoV2Signal

\* the long check, then the short check when no long signal was written
V2SignalCheck(s, bar, i, a, p) ==
    LET can_long == ~p.trade_with_trend \/ s.current_trend \in {TREND_UP, TREND_RANGE}
        can_short == ~p.trade_with_trend \/ s.current_trend \in {TREND_DOWN, TREND_RANGE}
        long == IF can_long THEN V2Side(s, bar, i, a, p, 1) ELSE NoV2Signal
    IN  IF long.signal # 0 THEN long
        ELSE IF can_short THEN V2Side(s, bar, i, a, p, -1)
        ELSE NoV2Signal

\* the breaks of bar i appended, in zone order, to the list of the given side
RECURSIVE V2Breaks(_, _, _, _, _, _)
V2Breaks(zones, k, bar, i, sr_tol, zone_type) ==
    IF k > Len(zones) THEN <<>>
    ELSE LET z == zones[k]
             hit == /\ z.zone_type = zone_type
                    /\ IF zone_type = "support" THEN bar.low < z.price - sr_tol
                       ELSE bar.high > z.price + sr_tol
         IN  (IF hit THEN << <<i, z.price>> >> ELSE <<>>)
                 \o V2Breaks(zones, k + 1, bar, i, sr_tol, zone_type)

\* the loop body up to the cooldown check: swing history, zones, trend and
\* break lists
V2Update(s, frame, i, a, p) ==
    LET highs == Column(frame, "high")
        lows == Column(frame, "low")
        sw == detect_swings(highs, lows, p.swing_strength)
        pr == compute_swing_prices(highs, lows, sw.sh, sw.sl, p.swing_strength)
        cluster_tol == (p.sr_cluster_atr * a) \div 10
        sr_tol == (p.sr_tolerance_atr * a) \div 10
        new_sh == sw.sh[i] /\ ~IsNaN(pr.sh_price[i])
        new_sl == sw.sl[i] /\ ~IsNaN(pr.sl_price[i])
        prev_sh == IF new_sh THEN <<pr.sh_price[i], s.prev_sh[1]>> ELSE s.prev_sh
        prev_sl == IF new_sl THEN <<pr.sl_price[i], s.prev_sl[1]>> ELSE s.prev_sl
        zones1 == IF new_sh
                  THEN update_sr_zones(s.sr_zones, pr.sh_price[i], i, "resistance",
                                       cluster_tol, p.sr_max_age, p.sr_max_levels)
                  ELSE s.sr_zones
        zones2 == IF new_sl
                  THEN update_sr_zones(zones1, pr.sl_price[i], i, "support",
                                       cluster_tol, p.sr_max_age, p.sr_max_levels)
                  ELSE zones1
        current_trend ==
            IF IsNaN(prev_sh[2]) \/ IsNaN(prev_sl[2]) THEN TREND_UNKNOWN
            ELSE IF prev_sh[1] > prev_sh[2] /\ prev_sl[1] > prev_sl[2] THEN TREND_UP
            ELSE IF prev_sh[1] < prev_sh[2] /\ prev_sl[1] < prev_sl[2] THEN TREND_DOWN
            ELSE TREND_RANGE
        Recent(b) == i - b[1] <= p.failure_lookback
    IN  [s EXCEPT !.prev_sh = prev_sh,
                  !.prev_sl = prev_sl,
                  !.sr_zones = zones2,
                  !.current_trend = current_trend,
                  !.recent_support_breaks =
                      SelectSeq(@ \o V2Breaks(zones2, 1, frame[i], i, sr_tol, "support"),
                                Recent),
                  !.recent_resist_breaks =
                      SelectSeq(@ \o V2Breaks(zones2, 1, frame[i], i, sr_tol, "resistance"),
                                Recent)]

\* atr[i]: undefined during the warm-up of atr_period bars
V2AtrAt(i, p) == IF i < p.atr_period THEN NaN ELSE V2Atr

\* one iteration of the loop on the frame extended to index i; path names
\* the way the iteration ended
V2Iteration(s, frame, p) ==
    LET i == s.i + 1
        a == V2AtrAt(i, p)
        s0 == [s EXCEPT !.i = i, !.out = NoV2Signal]
        s1 == V2Update(s0, frame, i, a, p)
        found == V2SignalCheck(s1, frame[i], i, a, p)
    IN  IF IsNaN(a) \/ a <= 0 THEN [s0 EXCEPT !.path = "atr"]
        ELSE IF i - s1.last_signal_bar < 5 THEN [s1 EXCEPT !.path = "cooldown"]
        ELSE IF found.signal = 0 THEN [s1 EXCEPT !.path = "none"]
        ELSE [s1 EXCEPT !.out = found,
                        !.last_signal_zone_price = found.zone.price,
                        !.last_signal_bar = i,
                        !.path = IF found.signal = 1 THEN "long" ELSE "short"]

V2Init ==
    /\ df \in [{0} -> V2Bars]
    /\ params \in { [x \in DOMAIN V2Params \cup {"atr_period", "trade_with_trend"} |->
                        IF x = "atr_period" THEN w
                        ELSE IF x = "trade_with_trend" THEN t
                        ELSE V2Params[x]] : w \in {1, 2}, t \in BOOLEAN }
    /\ data = Unset
    /\ signals = [i |-> 0, path |-> "start", out |-> NoV2Signal,
                  prev_sh |-> <<NaN, NaN>>, prev_sl |-> <<NaN, NaN>>,
                  current_trend |-> TREND_UNKNOWN, sr_zones |-> <<>>,
                  recent_support_breaks |-> <<>>, recent_resist_breaks |-> <<>>,
                  last_signal_zone_price |-> NaN, last_signal_bar |-> -999]
    /\ SimIdle
    /\ AbIdle

V2Bar(path) ==
    /\ signals.i < V2MaxBar
    /\ \E bar \in V2Bars :
          LET frame == [k \in 0..(signals.i + 1) |->
                            IF k <= signals.i THEN df[k] ELSE bar]
              after == V2Iteration(signals, frame, params)
          IN  /\ after.path = path
              /\ df' = frame
              /\ signals' = after
    /\ UNCHANGED <<params, data, simVars, abVars>>

V2SkipAtr == V2Bar("atr")
V2Cooldown == V2Bar("cooldown")
V2Long == V2Bar("long")
V2Short == V2Bar("short")
V2NoSignal == V2Bar("none")

V2Next == V2SkipAtr \/ V2Cooldown \/ V2Long \/ V2Short \/ V2NoSignal

SpecV2Signals == V2Init /\ [][V2Next]_vars

----------------------------------------------------------------------------
(* Claims about detect_signals_v2 *)

\* C25: the signal cooldown is keyed to the zone.  On an iteration whose
\* bar qualifies for a signal (zone in reach, pattern, signal bar and stop
\* distance all pass), no signal is written exactly when the previous
\* signal was at the same zone fewer than 5 bars earlier; a bar that
\* qualifies at a different zone within those 5 bars still emits.
C25_CooldownKeyedToZone ==
    [][signals # Unset /\ signals'.i = signals.i + 1 /\ signals'.path # "atr" =>
          LET i == signals'.i
              found == V2SignalCheck(signals', df'[i], i, V2AtrAt(i, params), params)
              within == i - signals.last_signal_bar < 5
              same_zone == found.zone.price = signals.last_signal_zone_price
          IN  found.signal # 0 =>
                  (signals'.out.signal = 0 <=> within /\ same_zone)
      ]_vars

\* C26: the pattern tag of a signal.  A signal is tagged TRIPLE_TEST when
\* its zone has min_touches_triple touches or more, PULLBACK when it has
\* min_touches_pullback or more and fewer than min_touches_triple, and
\* FAILURE only when neither threshold is met and the bars of the last
\* failure_lookback broke beyond that same zone; a break of another zone
\* never tags a signal at this zone FAILURE.
C26_PatternTagOfZone ==
    signals # Unset /\ signals.out.signal # 0 =>
        LET out == signals.out
            breaks == IF out.signal = 1 THEN signals.recent_support_breaks
                      ELSE signals.recent_resist_breaks
        IN  out.signal_type = SameZoneBreaksOnly(signals.i, out.zone, breaks, params)

----------------------------------------------------------------------------
(* src/circuit_breaker.py: CircuitBreaker.  bt is the CircuitBreakerState  *)
(* with the last call made on the object, its argument and what it        *)
(* returned; data.today is date.today(), a day number whose multiples of  *)
(* 7 are Mondays.  The trade lists keep the pnl of each Trade.            *)
(* _save_state writes the state to the state file and changes nothing in  *)
(* memory.                                                                *)

BreakerMaxDay == 8

BreakerMaxTrades == 4

BreakerStartDays == {0, 5}

BreakerPnls == {-2, -1, 1}

BreakerLimits ==
    [daily_loss_limit |-> -3, weekly_loss_limit |-> -4, consecutive_loss_limit |-> 2]

BreakerVariant == [fn |-> "CircuitBreaker"]

DailyReason == "Daily loss limit breached"
WeeklyReason == "Weekly loss limit breached"
ConsecutiveReason == "Consecutive loss limit breached"

\* "daily" in reason.lower(), "weekly" in reason.lower(): the reasons differ
\* in their first word, the rest is "loss limit breached" and numbers
MentionsDaily(reason) == reason = DailyReason
MentionsWeekly(reason) == reason = WeeklyReason

CircuitBreakerState ==
    [daily_pnl |-> 0, weekly_pnl |-> 0, consecutive_losses |-> 0,
     last_trade_date |-> None, week_start_date |-> None,
     trades_today |-> <<>>, trades_this_week |-> <<>>,
     circuit_breaker_active |-> FALSE, circuit_breaker_reason |-> "",
     call |-> "__init__", pnl |-> 0, manual_override |-> FALSE, returned |-> "None"]

\* what the call returned, as Python prints it
PyBool(b) == IF b THEN "True" ELSE "False"

Monday(today) == today - (today % 7)

check_rollover(s, today) ==
    LET new_day == s.last_trade_date # today
        d == IF new_day
             THEN [s EXCEPT !.daily_pnl = 0,
                            !.trades_today = <<>>,
                            !.circuit_breaker_active =
                                IF @ /\ MentionsDaily(s.circuit_breaker_reason)
                                THEN FALSE ELSE @,
                            !.circuit_breaker_reason =
                                IF s.circuit_breaker_active /\ MentionsDaily(@)
                                THEN "" ELSE @,
                            !.last_trade_date = today]
             ELSE s
        w == IF d.week_start_date = None
             THEN [d EXCEPT !.week_start_date = Monday(today)]
             ELSE d
    IN  IF Monday(today) # w.week_start_date
        THEN [w EXCEPT !.weekly_pnl = 0,
                       !.trades_this_week = <<>>,
                       !.week_start_date = Monday(today),
                       !.circuit_breaker_active =
                           IF @ /\ MentionsWeekly(w.circuit_breaker_reason)
                           THEN FALSE ELSE @,
                       !.circuit_breaker_reason =
                           IF w.circuit_breaker_active /\ MentionsWeekly(@)
                           THEN "" ELSE @]
        ELSE w

CheckClearsBreaker(s, p) ==
    IF s.daily_pnl <= p.daily_loss_limit
    THEN [s EXCEPT !.circuit_breaker_active = TRUE, !.circuit_breaker_reason = DailyReason]
    ELSE IF s.weekly_pnl <= p.weekly_loss_limit
    THEN [s EXCEPT !.circuit_breaker_active = TRUE, !.circuit_breaker_reason = WeeklyReason]
    ELSE IF s.consecutive_losses >= p.consecutive_loss_limit
    THEN [s EXCEPT !.circuit_breaker_active = TRUE,
                   !.circuit_breaker_reason = ConsecutiveReason]
    ELSE [s EXCEPT !.circuit_breaker_active = FALSE, !.circuit_breaker_reason = ""]

check_circuit_breaker(s, p) ==
    IF s.daily_pnl <= p.daily_loss_limit
    THEN [s EXCEPT !.circuit_breaker_active = TRUE, !.circuit_breaker_reason = DailyReason]
    ELSE IF s.weekly_pnl <= p.weekly_loss_limit
    THEN [s EXCEPT !.circuit_breaker_active = TRUE, !.circuit_breaker_reason = WeeklyReason]
    ELSE IF s.consecutive_losses >= p.consecutive_loss_limit
    THEN [s EXCEPT !.circuit_breaker_active = TRUE,
                   !.circuit_breaker_reason = ConsecutiveReason]
    ELSE s

can_trade(s, today) ==
    LET r == check_rollover(s, today)
    IN  [r EXCEPT !.call = "can_trade", !.pnl = 0, !.manual_override = FALSE,
                  !.returned = PyBool(~r.circuit_breaker_active)]

record_trade(s, today, pnl, p) ==
    LET r == check_rollover(s, today)
        u == [r EXCEPT !.daily_pnl = @ + pnl,
                       !.weekly_pnl = @ + pnl,
                       !.trades_today = Append(@, pnl),
                       !.trades_this_week = Append(@, pnl),
                       !.consecutive_losses = IF pnl < 0 THEN @ + 1 ELSE 0]
    IN  [check_circuit_breaker(u, p) EXCEPT
             !.call = "record_trade", !.pnl = pnl, !.manual_override = FALSE,
             !.returned = "None"]

\* the "can_trade" entry of the status dict
get_status(s, today) ==
    LET r == check_rollover(s, today)
    IN  [r EXCEPT !.call = "get_status", !.pnl = 0, !.manual_override = FALSE,
                  !.returned = PyBool(~r.circuit_breaker_active)]

ResetClearsCounters(s, manual_override) ==
    [s EXCEPT !.circuit_breaker_active = FALSE, !.circuit_breaker_reason = "",
              !.consecutive_losses = 0,
              !.call = "reset_circuit_breaker", !.pnl = 0,
              !.manual_override = manual_override, !.returned = "None"]

reset_circuit_breaker(s, manual_override) ==
    IF manual_override
    THEN [s EXCEPT !.circuit_breaker_active = FALSE, !.circuit_breaker_reason = "",
                   !.call = "reset_circuit_breaker", !.pnl = 0,
                   !.manual_override = manual_override, !.returned = "None"]
    ELSE [s EXCEPT !.call = "reset_circuit_breaker", !.pnl = 0,
                   !.manual_override = manual_override, !.returned = "None"]

\* CircuitBreaker(...) with no state file to load
BreakerInit ==
    /\ df = Unset
    /\ signals = Unset
    /\ AbIdle
    /\ variant = BreakerVariant
    /\ trades = <<>>
    /\ params = BreakerLimits
    /\ data \in [today : BreakerStartDays]
    /\ bt = check_rollover(CircuitBreakerState, data.today)

BreakerFrame == UNCHANGED <<df, params, signals, variant, trades, ab>>

\* midnight
NextDay ==
    /\ data.today < BreakerMaxDay
    /\ data' = [data EXCEPT !.today = @ + 1]
    /\ bt' = bt
    /\ BreakerFrame

CanTrade ==
    /\ bt' = can_trade(bt, data.today)
    /\ data' = data
    /\ BreakerFrame

RecordTrade ==
    /\ Len(bt.trades_this_week) < BreakerMaxTrades
    /\ \E pnl \in BreakerPnls : bt' = record_trade(bt, data.today, pnl, params)
    /\ data' = data
    /\ BreakerFrame

GetStatus ==
    /\ bt' = get_status(bt, data.today)
    /\ data' = data
    /\ BreakerFrame

ResetCircuitBreaker ==
    /\ \E manual_override \in BOOLEAN : bt' = reset_circuit_breaker(bt, manual_override)
    /\ data' = data
    /\ BreakerFrame

BreakerNext == NextDay \/ CanTrade \/ RecordTrade \/ GetStatus \/ ResetCircuitBreaker

SpecBreaker == BreakerInit /\ [][BreakerNext]_vars

NoOverrideNext == NextDay \/ CanTrade \/ RecordTrade \/ GetStatus

\* the calls and midnights of a run in which nobody overrides the breaker
SpecBreakerNoOverride == BreakerInit /\ [][NoOverrideNext]_vars

----------------------------------------------------------------------------
(* Claims about CircuitBreaker *)

\* the fields of CircuitBreakerState
StateOf(s) ==
    [f \in {"daily_pnl", "weekly_pnl", "consecutive_losses", "last_trade_date",
            "week_start_date", "trades_today", "trades_this_week",
            "circuit_breaker_active", "circuit_breaker_reason"} |-> s[f]]

LimitReached(s) ==
    \/ s.daily_pnl <= params.daily_loss_limit
    \/ s.weekly_pnl <= params.weekly_loss_limit
    \/ s.consecutive_losses >= params.consecutive_loss_limit

C28_WeeklyLimitWholeWeek ==
    bt.call = "can_trade" /\ bt.weekly_pnl <= params.weekly_loss_limit
        => bt.returned = "False"

\* C29: reset_circuit_breaker.  Without manual_override the call leaves
\* the whole state as it was (breaker flag and reason, P&L totals,
\* consecutive-loss counter, dates, trade lists); with manual_override it
\* sets circuit_breaker_active to False and circuit_breaker_reason to ""
\* and leaves every other field as it was.
C29_ResetFrame ==
    [][bt'.call = "reset_circuit_breaker" =>
          IF bt'.manual_override
          THEN StateOf(bt') = [StateOf(bt) EXCEPT !.circuit_breaker_active = FALSE,
                                                  !.circuit_breaker_reason = ""]
          ELSE StateOf(bt') = StateOf(bt)
      ]_vars

\* an override that cleared a breaker with both loss counters at their
\* limits, which stay where they were
C29_Witness ==
    /\ variant = BreakerVariant
    /\ bt.call = "reset_circuit_breaker"
    /\ bt.manual_override
    /\ ~bt.circuit_breaker_active
    /\ bt.consecutive_losses >= params.consecutive_loss_limit
    /\ bt.daily_pnl <= params.daily_loss_limit
    /\ Len(bt.trades_this_week) >= 2

----------------------------------------------------------------------------
(* Claims about the direction of the signals of detect_trend_and_entries *)

\* C30: signal direction follows the trend.  The iteration of index i
\* writes signal[i] = 1 only when trend[i] is UP and a swing low is
\* confirmed at i, signal[i] = -1 only when trend[i] is DOWN and a swing
\* high is confirmed at i; entry_type[i] is nonzero exactly when signal[i]
\* is; signal, stop_level and target_level of an index are written at
\* most once, by the one side that emits: the levels are that side's
\* set_levels values, the other side's counter is reset, and without a
\* signal the levels stay undefined.  So a series whose trend is never
\* DOWN has no short signal.
C30_SignalFollowsTrend ==
    signals.i > 0 =>
        LET out == signals.st
            inp == data.input
            long == set_levels(1, inp.sl_price, out.long_trigger_high,
                               out.long_ref_low, inp.atr)
            short == set_levels(-1, inp.sh_price, out.short_trigger_low,
                                out.short_ref_high, inp.atr)
        IN  /\ out.signal \in {-1, 0, 1}
            /\ out.signal = 1 =>
                  /\ out.current_trend = TREND_UP
                  /\ ~IsNaN(inp.sl_price)
                  /\ out.stop_level = long.stop
                  /\ out.target_level = long.target
                  /\ out.short_pullback_count = 0
            /\ out.signal = -1 =>
                  /\ out.current_trend = TREND_DOWN
                  /\ ~IsNaN(inp.sh_price)
                  /\ out.stop_level = short.stop
                  /\ out.target_level = short.target
                  /\ out.long_pullback_count = 0
            /\ out.signal = 0 => IsNaN(out.stop_level) /\ IsNaN(out.target_level)
            /\ out.entry_type # 0 <=> out.signal # 0

\* a short second entry on a swing high confirmed in a downtrend
C30_Witness ==
    /\ signals.i > 0
    /\ signals.st.signal = -1
    /\ signals.st.entry_type = 2
    /\ signals.st.current_trend = TREND_DOWN
    /\ ~IsNaN(data.input.sh_price)

----------------------------------------------------------------------------
(* Claims about the consumed pullback counter *)

C32_TradesNeverOverlap ==
    /\ [](\A k \in 1..(Len(trades) - 1) :
             trades[k + 1].entry_bar > trades[k].exit_bar)
    /\ [][ LET closed == Len(trades') > Len(trades)
               filled == bt.has_pending /\ bt'.entry_bar = bt'.i
           IN  /\ Len(trades') <= Len(trades) + 1
               /\ closed => /\ LastTrade'.exit_bar = bt'.i
                            /\ ~bt'.in_position
                            /\ ~bt'.has_pending
               /\ filled => ~bt'.has_pending
               /\ (closed /\ bt.in_position) => LastTrade'.entry_bar = bt.entry_bar
        ]_vars

\* a trade was closed by the exit block on one bar, the next bar placed an
\* order and the bar after that filled it and stopped it out: the second
\* trade is as close behind the first as the loop allows
C32_Witness ==
    /\ variant.fn = "backtest"
    /\ Len(trades) = 2
    /\ trades[1].bars_held > 0
    /\ trades[2].entry_bar = trades[1].exit_bar + 2
    /\ trades[2].exit_bar = bt.i

\* the bar at idx reaches the stop of the open position
AbStopTouched(self, d, idx) ==
    IF self.position_type = "LONG" THEN d[idx].low <= self.stop_price
                                   ELSE d[idx].high >= self.stop_price

\* C33 as claimed: the exits of an open position are evaluated on every bar
\* after the entry bar.  Every recorded trade has bars_held <= max_hold_bars,
\* and an iteration over a bar after the entry bar whose low (long) or high
\* (short) reaches the stop closes the position with a record at that bar.
C33_ExitsOnEveryBar ==
    /\ [](\A k \in 1..Len(ab.self.trades) :
             ab.self.trades[k].bars_held <= AbParams.max_hold_bars)
    /\ [][ ( /\ InLoop
             /\ ab.self.in_position
             /\ ab.idx > ab.self.entry_bar
             /\ AbStopTouched(ab.self, ab.d, ab.idx) ) =>
           ( /\ Len(ab'.self.trades) = Len(ab.self.trades) + 1
             /\ ab'.self.trades[Len(ab'.self.trades)].exit_idx = ab.idx
             /\ ab'.self.trades[Len(ab'.self.trades)].entry_idx = ab.self.entry_bar )
        ]_vars

\* the loss of a recorded trade in price terms (negative for a gain)
AbLoss(t) ==
    IF t.position_type = "LONG" THEN t.entry_price - t.exit_price
                                ELSE t.exit_price - t.entry_price

\* C34 as claimed: ATR-capped risk.  Every recorded trade entered with a
\* stop at most max_stop_atr ATRs of the entry bar away from the entry price,
\* give or take half a tick of rounding (t.atr is atr_period times the ATR),
\* and whatever its exit reason it lost no more than that stop distance.
C34_AtrCappedRisk ==
    \A k \in 1..Len(ab.self.trades) :
        LET t == ab.self.trades[k]
            stop_dist == Abs(t.entry_price - t.stop_price)
        IN  /\ 2 * AbParams.atr_period * stop_dist
                  <= AbParams.max_stop_atr_x2 * t.atr
                       + AbParams.atr_period * AbParams.tick_size
            /\ t.exit_reason \in {"STOP", "TARGET", "TIME", "NEW_DAY"}
            /\ AbLoss(t) <= stop_dist

\* the iteration at ab.idx is one that looks for an entry
ChecksEntry ==
    /\ InLoop
    /\ ~SkipsBar(ab.d, ab.idx)
    /\ ~BeginBar(ab.self, ab.d, ab.idx).in_position
    /\ ~CircuitBroken(BeginBar(ab.self, ab.d, ab.idx))

GrownFrom(before, after) ==
    /\ after.zone_type = before.zone_type
    /\ Len(after.touches) > Len(before.touches)
    /\ SubSeq(after.touches, 1, Len(before.touches)) = before.touches

\* C35 as claimed: S/R levels older than sr_max_age are expired.  On every
\* iteration no signal is written from a zone whose last touch is more than
\* sr_max_age bars before the current bar, no swing is merged into such a
\* zone, and the zone list holds at most sr_max_levels zones.
C35_StaleZonesExpired ==
    [][signals # Unset /\ signals'.i = signals.i + 1 =>
          LET i == signals'.i
              out == signals'.out
          IN  /\ out.signal # 0 => i - out.zone.last_bar <= params.sr_max_age
              /\ \A j \in 1..Len(signals.sr_zones) :
                 \A k \in 1..Len(signals'.sr_zones) :
                    GrownFrom(signals.sr_zones[j], signals'.sr_zones[k]) =>
                        i - signals.sr_zones[j].last_bar <= params.sr_max_age
              /\ Len(signals'.sr_zones) <= params.sr_max_levels
      ]_vars

\* C36 as claimed: in backtest_v2 each fill leads to exactly one trade
\* record.  Whatever bar the input series ends on, a position still open
\* included, the trade list returned is as long as total_fills.
C36_OneRecordPerFill ==
    variant.fn = "backtest_v2" => Len(trades) = bt.total_fills

\* C37: with max_hold >= 1, backtest and backtest_trailing record no trade
\* with bars_held above max_hold, and a position that is still open after
\* an iteration has been held for fewer than max_hold bars.
C37_HoldingTimeBounded ==
    (SimParams.max_hold >= 1 /\ variant.fn \in {"backtest", "backtest_trailing"}) =>
        /\ \A k \in 1..Len(trades) :
              /\ trades[k].bars_held = trades[k].exit_bar - trades[k].entry_bar
              /\ trades[k].bars_held <= SimParams.max_hold
        /\ bt.in_position => bt.i - bt.entry_bar < SimParams.max_hold

\* backtest closed a position by the time exit after exactly max_hold bars
C37_Witness ==
    /\ variant.fn = "backtest"
    /\ trades # <<>>
    /\ LastTrade.exit_bar = bt.i
    /\ LastTrade.exit_reason = "TIME"
    /\ LastTrade.bars_held = SimParams.max_hold

\* C38: the trend label leaves UNKNOWN at most once.  After an iteration
\* that wrote a label other than UNKNOWN, no later iteration writes
\* UNKNOWN, with or without the EMA confirmation.
C38_UnknownOnlyAtStart ==
    [][signals # Unset /\ signals.st.current_trend # TREND_UNKNOWN =>
          signals'.st.current_trend # TREND_UNKNOWN]_vars

\* with the EMA confirmation on, a bar without a swing, after the label
\* has left UNKNOWN, on which the close is against the EMA: the structural
\* uptrend is demoted to RANGE, not to UNKNOWN
C38_Witness ==
    /\ signals.i > 0
    /\ params.use_ema_confirmation
    /\ IsNaN(data.input.sh_price) /\ IsNaN(data.input.sl_price)
    /\ ClassifyStructure(signals.st.prev_sh, signals.st.prev_sl) = TREND_UP
    /\ signals.st.current_trend = TREND_RANGE

\* C39 as claimed: a breaker activated for any reason is open again in the
\* next calendar week.  With no manual override, a can_trade call made in a
\* week in which no trade has been recorded (every activation is by a
\* trade recorded in an earlier week) returns True.
C39_ClearedByNextWeek ==
    (bt.call = "can_trade" /\ bt.trades_this_week = <<>>) => bt.returned = "True"

====
